---- MODULE Spec2Model ----
(***************************************************************************)
(* Model of the inventory upload endpoint (onRequestPost, the variant with *)
(* chunked preloads, brand-scoped SKU resolution and global batch_no       *)
(* upserts) together with the external store it talks to.                  *)
(*                                                                         *)
(* Strings are sequences of one-character strings, so that trim,           *)
(* toUpperCase, the date normaliser and string comparison are computed     *)
(* and not assumed.                                                        *)
(***************************************************************************)
EXTENDS Integers, Sequences, FiniteSets, TLC

\* ------------------------------------------------------------------ bounds
\* Longest `rows` array a request body carries.
MaxRows == 3

\* ---------------------------------------------------------------- tunables
\* The handler's tunables, scaled down so that a request of MaxRows rows
\* spans several chunks and overflows the skip-list cap
\* (source values: 300, 200, 60, 40, 60).
INVENTORY_CHUNK_SIZE == 2
MAX_SKIPPED_RETURN == 2
BRAND_IN_CHUNK == 1
SKU_PAIR_CHUNK == 1
BATCH_IN_CHUNK == 1

\* The length to which the text of a store error is cut in a skip reason
\* (source value: 300).
ERROR_TEXT_MAX == 3

\* ------------------------------------------------------------------ strings
\* UTF-16 code units of the characters the model uses, in ascending order.
CodeUnits ==
    << " ", "%", "-", "/", "0", "1", "2", "3", "4", "5", "6", "7", "8", "9",
       "A", "B", "C", "D", "E", "F", "G", "H", "I", "J", "K", "L", "M",
       "N", "O", "P", "Q", "R", "S", "T", "U", "V", "W", "X", "Y", "Z", "_",
       "a", "b", "c", "d", "e", "f", "g", "h", "i", "j", "k", "l", "m",
       "n", "o", "p", "q", "r", "s", "t", "u", "v", "w", "x", "y", "z" >>

Code(c) ==
    CHOOSE i \in 1..Len(CodeUnits) : CodeUnits[i] = c

Digits == { "0", "1", "2", "3", "4", "5", "6", "7", "8", "9" }

DigitVal(c) ==
    Code(c) - Code("0")

IsLower(c) ==
    Code(c) >= Code("a") /\ Code(c) <= Code("z")

UpperChar(c) ==
    IF IsLower(c) THEN CodeUnits[Code(c) - Code("a") + Code("A")] ELSE c

\* String.prototype.toUpperCase
ToUpperCase(s) ==
    [i \in 1..Len(s) |-> UpperChar(s[i])]

\* String.prototype.trim (the only white space of the model is the blank)
Trim(s) ==
    LET keep == { i \in 1..Len(s) : s[i] # " " }
    IN  IF keep = {} THEN << >>
        ELSE LET lo == CHOOSE i \in keep : \A j \in keep : i <= j
                 hi == CHOOSE i \in keep : \A j \in keep : i >= j
             IN  SubSeq(s, lo, hi)

\* a < b on strings: comparison by code units, a proper prefix is smaller
StrLess(a, b) ==
    \E k \in 1..(Len(b)) :
        /\ \A j \in 1..(k - 1) : j <= Len(a) /\ a[j] = b[j]
        /\ \/ k = Len(a) + 1
           \/ k <= Len(a) /\ Code(a[k]) < Code(b[k])

\* String.prototype.padStart(2, "0")
PadStart2(s) ==
    IF Len(s) < 2 THEN << "0" >> \o s ELSE s

AllDigits(s) ==
    \A i \in 1..Len(s) : s[i] \in Digits

\* ---------------------------------------------------------------- JS values
Undef == [t |-> "undefined", s |-> << >>, n |-> 0]
Null  == [t |-> "null", s |-> << >>, n |-> 0]
Str(s) == [t |-> "string", s |-> s, n |-> 0]
Num(n) == [t |-> "number", s |-> << >>, n |-> n]

IsNullish(v) ==
    v.t \in { "undefined", "null" }

\* a ?? b ?? ... ?? dflt over the sequence vs
RECURSIVE Coalesce(_, _)
Coalesce(vs, dflt) ==
    IF vs = << >> THEN dflt
    ELSE IF IsNullish(Head(vs)) THEN Coalesce(Tail(vs), dflt)
    ELSE Head(vs)

\* !v
Falsy(v) ==
    \/ IsNullish(v)
    \/ v.t = "string" /\ v.s = << >>
    \/ v.t = "number" /\ v.n = 0

\* String(n) for a non-negative integer
RECURSIVE NatToStr(_)
NatToStr(n) ==
    IF n < 10 THEN << CodeUnits[Code("0") + n] >>
    ELSE NatToStr(n \div 10) \o << CodeUnits[Code("0") + (n % 10)] >>

\* String(v)
ToStr(v) ==
    CASE v.t = "string" -> v.s
      [] v.t = "number" -> NatToStr(v.n)
      [] v.t = "null" -> << "n", "u", "l", "l" >>
      [] OTHER -> << "u", "n", "d", "e", "f", "i", "n", "e", "d" >>

\* ------------------------------------------------------------- normaliser
AliasKeys ==
    { "sku_code", "sku", "code", "brand_name", "brand", "brandname",
      "batch_no", "batch", "batchno", "barcode", "code128",
      "date_in", "date", "datein",
      "warranty_months", "warranty", "warranty_month", "warrantyMonths" }

\* A raw row object: the properties given in f, every other one undefined.
RawRow(f) ==
    [k \in AliasKeys |-> IF k \in DOMAIN f THEN f[k] ELSE Undef]

remapAliases(r) ==
    [ sku_code   |-> Coalesce(<< r["sku_code"], r["sku"], r["code"] >>, Str(<< >>)),
      brand_name |-> Coalesce(<< r["brand_name"], r["brand"], r["brandname"] >>, Str(<< >>)),
      batch_no   |-> Coalesce(<< r["batch_no"], r["batch"], r["batchno"] >>, Str(<< >>)),
      barcode    |-> Coalesce(<< r["barcode"], r["code128"] >>, Str(<< >>)),
      date_in    |-> Coalesce(<< r["date_in"], r["date"], r["datein"] >>, Str(<< >>)),
      warranty_months |->
          Coalesce(<< r["warranty_months"], r["warranty"], r["warranty_month"],
                      r["warrantyMonths"] >>, Null) ]

\* /^(\d{1,2})\/(\d{1,2})\/(\d{4})$/ : the lengths <<a, b>> of the first two
\* groups when t matches, the empty set otherwise
SlashDateMatch(t) ==
    { ab \in (1..2) \X (1..2) :
        /\ Len(t) = ab[1] + ab[2] + 6
        /\ t[ab[1] + 1] = "/"
        /\ t[ab[1] + ab[2] + 2] = "/"
        /\ AllDigits(SubSeq(t, 1, ab[1]))
        /\ AllDigits(SubSeq(t, ab[1] + 2, ab[1] + ab[2] + 1))
        /\ AllDigits(SubSeq(t, ab[1] + ab[2] + 3, Len(t))) }

\* new Date(t) is a valid date for the date-only form YYYY-MM-DD with a month
\* 01..12 and a day 01..28; toISOString().slice(0, 10) is then t again. No
\* other parseable form is among the inputs of the model.
IsIsoDate(t) ==
    /\ Len(t) = 10
    /\ t[5] = "-" /\ t[8] = "-"
    /\ AllDigits(SubSeq(t, 1, 4)) /\ AllDigits(SubSeq(t, 6, 7))
    /\ AllDigits(SubSeq(t, 9, 10))
    /\ LET mm == 10 * DigitVal(t[6]) + DigitVal(t[7])
           dd == 10 * DigitVal(t[9]) + DigitVal(t[10])
       IN  mm >= 1 /\ mm <= 12 /\ dd >= 1 /\ dd <= 28

normalizeDate(v) ==
    IF Falsy(v) THEN << >>
    ELSE LET t == Trim(ToStr(v))
             m == SlashDateMatch(t)
         IN  IF m # {}
             THEN LET ab == CHOOSE x \in m : TRUE
                      mm == PadStart2(SubSeq(t, 1, ab[1]))
                      dd == PadStart2(SubSeq(t, ab[1] + 2, ab[1] + ab[2] + 1))
                      yyyy == SubSeq(t, ab[1] + ab[2] + 3, Len(t))
                  IN  yyyy \o << "-" >> \o mm \o << "-" >> \o dd
             ELSE IF IsIsoDate(t) THEN SubSeq(t, 1, 10)
             ELSE t

\* parseInt(s, 10) of an unsigned string: the value of its leading digits,
\* -1 standing for NaN
RECURSIVE LeadingDigits(_, _)
LeadingDigits(s, acc) ==
    IF s = << >> \/ Head(s) \notin Digits THEN acc
    ELSE LeadingDigits(Tail(s), (IF acc < 0 THEN 0 ELSE 10 * acc) + DigitVal(Head(s)))

normalizeInt(v) ==
    IF IsNullish(v) \/ (v.t = "string" /\ v.s = << >>) THEN Null
    ELSE LET n == LeadingDigits(Trim(ToStr(v)), -1)
         IN  IF n >= 0 THEN Num(n) ELSE Null

\* (x ?? "").trim() throws a TypeError when x is not a string
TrimThrows(v) ==
    v.t # "string"

MissingReason ==
    [ text |-> "Missing required field(s). Required: sku_code, brand_name, batch_no, barcode, date_in",
      args |-> << >> ]

\* One iteration of the normalisation loop on inputRows[i + 1] (index i).
NormalizedRowOf(raw, i) ==
    LET r == remapAliases(raw)
    IN  [ sku_code   |-> Trim(r.sku_code.s),
          brand_name |-> Trim(r.brand_name.s),
          batch_no   |-> Trim(r.batch_no.s),
          barcode    |-> Trim(r.barcode.s),
          date_in    |-> normalizeDate(r.date_in),
          warranty_months |-> normalizeInt(r.warranty_months),
          rowIndex   |-> i ]

RowThrows(raw) ==
    LET r == remapAliases(raw)
    IN  \/ TrimThrows(r.sku_code) \/ TrimThrows(r.brand_name)
        \/ TrimThrows(r.batch_no) \/ TrimThrows(r.barcode)

MissingField(row) ==
    \/ row.sku_code = << >> \/ row.brand_name = << >> \/ row.batch_no = << >>
    \/ row.barcode = << >> \/ row.date_in = << >>

\* The normalisation loop from index i on: the rows kept, the rows skipped,
\* and whether an iteration threw (the loop stops there).
RECURSIVE NormalizeRows(_, _, _, _)
NormalizeRows(inputRows, i, rows, skippedArr) ==
    IF i >= Len(inputRows)
    THEN [rows |-> rows, skipped |-> skippedArr, threw |-> FALSE]
    ELSE IF RowThrows(inputRows[i + 1])
    THEN [rows |-> rows, skipped |-> skippedArr, threw |-> TRUE]
    ELSE LET row == NormalizedRowOf(inputRows[i + 1], i)
         IN  IF MissingField(row)
             THEN NormalizeRows(inputRows, i + 1, rows,
                                Append(skippedArr, [row |-> row, reason |-> MissingReason]))
             ELSE NormalizeRows(inputRows, i + 1, Append(rows, row), skippedArr)

\* ---------------------------------------------------------- array helpers
MapSeq(s, F(_)) ==
    [k \in 1..Len(s) |-> F(s[k])]

\* [...new Set(s)]: the distinct elements of s in order of first occurrence
RECURSIVE Dedup(_)
Dedup(s) ==
    IF s = << >> THEN << >>
    ELSE LET front == Dedup(SubSeq(s, 1, Len(s) - 1))
             x == s[Len(s)]
         IN  IF \E k \in 1..Len(front) : front[k] = x THEN front ELSE Append(front, x)

\* Every chunk taken from the start of the array: arr.slice(0, size)
SliceFromStart(arr, i, size) ==
    SubSeq(arr, 1, IF size < Len(arr) THEN size ELSE Len(arr))

\* arr.slice(i, i + size)
Slice(arr, i, size) ==
    SubSeq(arr, i + 1, IF i + size < Len(arr) THEN i + size ELSE Len(arr))

\* The skip list returned whole
CappedSkippedUncapped(skippedArr) ==
    skippedArr

\* skipped.slice(0, MAX_SKIPPED_RETURN)
CappedSkipped(skippedArr) ==
    Slice(skippedArr, 0, MAX_SKIPPED_RETURN)

\* ------------------------------------------------------------------- store
\* The external store: brands and skus are only read by the handler,
\* batches and inventory are read and written. A table is the sequence of
\* its rows in insertion order; a query returns the matching rows in it.
VARIABLES brandsT, skusT, batchesT, inventoryT

\* Handler invocations: pc, the locals, the response returned, and the log of
\* the outbound calls issued by the invocation.
VARIABLES pc, loc, resp, calls, atStart

vars == << brandsT, skusT, batchesT, inventoryT, pc, loc, resp, calls, atStart >>

Req == { 1 }

BrandNell == [id |-> "b1", name |-> << "N", "e", "l", "l" >>]
BrandAcme == [id |-> "b2", name |-> << "A", "c", "m", "e" >>]
SkuNellS1 == [id |-> "s1", sku_code |-> << "S", "1" >>, brand_id |-> "b1"]
SkuAcmeS1 == [id |-> "s2", sku_code |-> << "S", "1" >>, brand_id |-> "b2"]

\* The reference data the store may hold when the requests arrive.
StoreContents ==
    { [brands |-> << BrandNell, BrandAcme >>, skus |-> << SkuNellS1, SkuAcmeS1 >>],
      [brands |-> << BrandNell, BrandAcme >>, skus |-> << SkuNellS1 >>],
      [brands |-> << BrandNell >>, skus |-> << SkuNellS1 >>] }

\* name ILIKE pattern: the pattern is sent as the row's brand_name, unescaped,
\* so `_` stands for any one character and `%` for any run of characters;
\* every other character matches itself, ignoring case
RECURSIVE ILike(_, _)
ILike(name, pattern) ==
    IF pattern = << >> THEN name = << >>
    ELSE IF Head(pattern) = "%"
    THEN ILike(name, Tail(pattern)) \/ (name # << >> /\ ILike(Tail(name), pattern))
    ELSE /\ name # << >>
         /\ Head(pattern) = "_" \/ UpperChar(Head(pattern)) = UpperChar(Head(name))
         /\ ILike(Tail(name), Tail(pattern))

\* GET brands?select=id,name&or=(name.ilike."v1",name.ilike."v2",...)
SelectBrands(T, part) ==
    SelectSeq(T, LAMBDA b : \E k \in 1..Len(part) : ILike(b.name, part[k]))

\* GET skus?select=id,sku_code,brand_id&or=(and(brand_id.eq.B,sku_code.eq."S"),...)
SelectSkus(T, part) ==
    SelectSeq(T, LAMBDA x : \E k \in 1..Len(part) :
                     x.brand_id = part[k][1] /\ x.sku_code = part[k][2])

\* GET batches?select=id,sku_id,batch_no&batch_no=in.("v1","v2",...)
SelectBatches(T, part) ==
    MapSeq(SelectSeq(T, LAMBDA b : \E k \in 1..Len(part) : b.batch_no = part[k]),
           LAMBDA b : [id |-> b.id, sku_id |-> b.sku_id, batch_no |-> b.batch_no])

\* POST batches?on_conflict=batch_no_norm, Prefer: resolution=merge-duplicates:
\* a record whose batch_no is stored already is merged into the stored row,
\* any other record is inserted under a fresh id.
\* A plain insert of the records, without the conflict target
UpsertBatchRowsNoMerge(T, payload) ==
    T \o [k \in 1..Len(payload) |->
            [id |-> Len(T) + k, sku_id |-> payload[k].sku_id,
             batch_no |-> payload[k].batch_no, date_in |-> payload[k].date_in]]

RECURSIVE UpsertBatchRows(_, _)
UpsertBatchRows(T, payload) ==
    IF payload = << >> THEN T
    ELSE LET rec == Head(payload)
             hit == { k \in 1..Len(T) : T[k].batch_no = rec.batch_no }
         IN  IF hit # {}
             THEN UpsertBatchRows(
                      [k \in 1..Len(T) |->
                          IF k \in hit
                          THEN [T[k] EXCEPT !.sku_id = rec.sku_id, !.date_in = rec.date_in]
                          ELSE T[k]],
                      Tail(payload))
             ELSE UpsertBatchRows(
                      Append(T, [id |-> Len(T) + 1, sku_id |-> rec.sku_id,
                                 batch_no |-> rec.batch_no, date_in |-> rec.date_in]),
                      Tail(payload))

\* POST inventory?on_conflict=barcode, Prefer: resolution=ignore-duplicates,
\* return=representation: a record whose barcode is stored already (or was
\* inserted earlier by the same statement) is ignored; the rows inserted are
\* echoed.
\* A plain insert: every record is stored and echoed
InsertInventoryRowsNoIgnore(T, chunk, echoed) ==
    [table |-> T \o chunk, echoed |-> echoed \o chunk]

RECURSIVE InsertInventoryRows(_, _, _)
InsertInventoryRows(T, chunk, echoed) ==
    IF chunk = << >> THEN [table |-> T, echoed |-> echoed]
    ELSE LET rec == Head(chunk)
         IN  IF \E k \in 1..Len(T) : T[k].barcode = rec.barcode
             THEN InsertInventoryRows(T, Tail(chunk), echoed)
             ELSE InsertInventoryRows(Append(T, rec), Tail(chunk), Append(echoed, rec))

\* ----------------------------------------------------------------- handler
\* The request bodies: text that is no JSON, a JSON value without a `rows`
\* array, and { rows: [...] }.
MalformedBody == [kind |-> "malformed", hasRows |-> FALSE, rows |-> << >>]
NoRowsBody    == [kind |-> "json", hasRows |-> FALSE, rows |-> << >>]
RowsBody(rs)  == [kind |-> "json", hasRows |-> TRUE, rows |-> rs]

\* The locals of onRequestPost at its entry.
FreshLoc ==
    [ hasKey |-> FALSE, body |-> MalformedBody, phase |-> "init",
      insertedCount |-> 0, duplicateCount |-> 0, skipped |-> << >>,
      rows |-> << >>, i |-> 0,
      brandNamesArr |-> << >>, brands |-> << >>, rowsWithBrand |-> << >>,
      skuPairs |-> << >>, skus |-> << >>, usableRows |-> << >>,
      batchNosArr |-> << >>, batches |-> << >>,
      missingBatchPayload |-> << >>, inventoryPayload |-> << >> ]

NoBody == [k \in {} |-> 0]
NoResp == [status |-> 0, body |-> NoBody]

\* { ...base, ...payload }
Spread(base, payload) ==
    [k \in (DOMAIN base) \cup (DOMAIN payload) |->
        IF k \in DOMAIN payload THEN payload[k] ELSE base[k]]

\* json() reporting the length of the capped skip list
jsonCappedCount(payload, status, counters) ==
    [ status |-> status,
      body |-> Spread([ added |-> counters.insertedCount,
                        addedCount |-> counters.insertedCount,
                        skipped |-> Len(CappedSkipped(counters.skippedArr)) ],
                      payload) ]

json(payload, status, counters) ==
    [ status |-> status,
      body |-> Spread([ added |-> counters.insertedCount,
                        addedCount |-> counters.insertedCount,
                        skipped |-> Len(counters.skippedArr) ],
                      payload) ]

\* A `return json(payload, status, { insertedCount, skippedArr: skipped })`
\* of the handler whose locals are l.
Return(l, payload, status) ==
    [ l |-> l, pc |-> "done",
      resp |-> json(payload, status,
                    [insertedCount |-> l.insertedCount, skippedArr |-> l.skipped]) ]

\* The catch block calling json() without the counters (their defaults apply)
CatchWithoutCounters(l) ==
    [ l |-> l, pc |-> "done",
      resp |-> json([error |-> "Unexpected error", phase |-> l.phase], 500,
                    [insertedCount |-> 0, skippedArr |-> << >>]) ]

\* The catch block throwing again: the invocation ends without a response
CatchRethrows(l) ==
    [l |-> l, pc |-> "thrown", resp |-> NoResp]

\* The catch block of the handler.
Catch(l) ==
    Return(l, [error |-> "Unexpected error", phase |-> l.phase], 500)

\* Execution goes on to the next outbound call, at label p.
Goto(l, p) ==
    [l |-> l, pc |-> p, resp |-> NoResp]

\* The guard dropped: an empty row set goes on to normalisation
NoRowsNeverProvided(inputRows) ==
    FALSE

\* !inputRows.length
NoRowsProvided(inputRows) ==
    Len(inputRows) = 0

\* The credential check dropped
SB_KEY_NeverMissing(key) ==
    FALSE

\* !SB_KEY
SB_KEY_Missing(key) ==
    ~key

\* From the entry of the handler to its first outbound call.
Begin(key, body) ==
    LET l0 == [FreshLoc EXCEPT !.hasKey = key, !.body = body]
    IN  IF SB_KEY_Missing(key)
        THEN Return(l0, [error |-> "Missing SUPABASE_SERVICE_ROLE_KEY", phase |-> l0.phase], 500)
        ELSE LET l1 == [l0 EXCEPT !.phase = "parse_body"]
                 inputRows == IF body.hasRows THEN body.rows ELSE << >>
             IN  IF body.kind = "malformed"
                 THEN Return(l1, [error |-> "Invalid JSON body", phase |-> l1.phase], 400)
                 ELSE IF NoRowsProvided(inputRows)
                 THEN Return(l1, [error |-> "No rows provided (expected { rows: [...] })",
                                  phase |-> l1.phase], 400)
                 ELSE LET n == NormalizeRows(inputRows, 0, << >>, << >>)
                          l2 == [l1 EXCEPT !.phase = "normalize_rows",
                                           !.rows = n.rows, !.skipped = n.skipped]
                      IN  IF n.threw THEN Catch(l2)
                          ELSE IF Len(n.rows) = 0
                          THEN Return(l2, [note |-> "All rows skipped due to missing required fields",
                                           phase |-> l2.phase], 200)
                          ELSE Goto([l2 EXCEPT
                                       !.phase = "preload_brands",
                                       !.brandNamesArr =
                                           Dedup(MapSeq(n.rows, LAMBDA r : r.brand_name)),
                                       !.brands = << >>, !.i = 0],
                                    "preload_brands")

normKey(str) ==
    ToUpperCase(Trim(str))

\* new Map(...) filled by set() over arr: the value under key is the last
\* element of arr with that key; the indices of the elements with that key
MapHits(arr, Key(_), key) ==
    { k \in 1..Len(arr) : Key(arr[k]) = key }

MapHas(arr, Key(_), key) ==
    MapHits(arr, Key, key) # {}

MapGet(arr, Key(_), key) ==
    arr[CHOOSE k \in MapHits(arr, Key, key) : \A j \in MapHits(arr, Key, key) : j <= k]

BrandKey(b) == normKey(b.name)

BrandNotFound(r) ==
    [text |-> "Brand not found: ", args |-> << r.brand_name >>]

\* { ...r, brand_id }
WithBrand(r, brand_id) ==
    [ sku_code |-> r.sku_code, brand_name |-> r.brand_name, batch_no |-> r.batch_no,
      barcode |-> r.barcode, date_in |-> r.date_in,
      warranty_months |-> r.warranty_months, rowIndex |-> r.rowIndex,
      brand_id |-> brand_id ]

\* After the last brand page: brandMap, the rows with a brand, the SKU pairs.
AfterBrands(l) ==
    LET found(r) == MapHas(l.brands, BrandKey, normKey(r.brand_name))
        withBrand == MapSeq(SelectSeq(l.rows, found),
                            LAMBDA r : WithBrand(r, MapGet(l.brands, BrandKey,
                                                           normKey(r.brand_name)).id))
        skips == MapSeq(SelectSeq(l.rows, LAMBDA r : ~found(r)),
                        LAMBDA r : [row |-> r, reason |-> BrandNotFound(r)])
        l1 == [l EXCEPT !.rowsWithBrand = withBrand, !.skipped = l.skipped \o skips]
    IN  IF Len(withBrand) = 0
        THEN Return(l1, [note |-> "All rows skipped due to missing brands",
                         phase |-> l1.phase], 200)
        ELSE Goto([l1 EXCEPT
                     !.phase = "preload_skus",
                     !.skuPairs = Dedup(MapSeq(withBrand,
                                               LAMBDA r : << r.brand_id, r.sku_code >>)),
                     !.skus = << >>, !.i = 0],
                  "preload_skus")

SkuKey(x) == << x.brand_id, x.sku_code >>

SkuNotFound(r) ==
    [text |-> "SKU not found for (brand_name=, sku_code=)",
     args |-> << r.brand_name, r.sku_code >>]

\* { ...r, sku_id }
WithSku(r, sku_id) ==
    [ sku_code |-> r.sku_code, brand_name |-> r.brand_name, batch_no |-> r.batch_no,
      barcode |-> r.barcode, date_in |-> r.date_in,
      warranty_months |-> r.warranty_months, rowIndex |-> r.rowIndex,
      brand_id |-> r.brand_id, sku_id |-> sku_id ]

\* AfterSkus with skuMap keyed by sku_code alone
AfterSkusByCodeOnly(l) ==
    LET CodeKey(x) == x.sku_code
        found(r) == MapHas(l.skus, CodeKey, r.sku_code)
        usable == MapSeq(SelectSeq(l.rowsWithBrand, found),
                         LAMBDA r : WithSku(r, MapGet(l.skus, CodeKey, r.sku_code).id))
        skips == MapSeq(SelectSeq(l.rowsWithBrand, LAMBDA r : ~found(r)),
                        LAMBDA r : [row |-> r, reason |-> SkuNotFound(r)])
        l1 == [l EXCEPT !.usableRows = usable, !.skipped = l.skipped \o skips]
    IN  IF Len(usable) = 0
        THEN Return(l1, [note |-> "All rows skipped due to missing SKUs",
                         phase |-> l1.phase], 200)
        ELSE Goto([l1 EXCEPT
                     !.phase = "preload_batches",
                     !.batchNosArr = Dedup(MapSeq(usable, LAMBDA r : r.batch_no)),
                     !.batches = << >>, !.i = 0],
                  "preload_batches")

\* After the last SKU page: skuMap, the usable rows, the batch numbers.
AfterSkus(l) ==
    LET found(r) == MapHas(l.skus, SkuKey, << r.brand_id, r.sku_code >>)
        usable == MapSeq(SelectSeq(l.rowsWithBrand, found),
                         LAMBDA r : WithSku(r, MapGet(l.skus, SkuKey,
                                                      << r.brand_id, r.sku_code >>).id))
        skips == MapSeq(SelectSeq(l.rowsWithBrand, LAMBDA r : ~found(r)),
                        LAMBDA r : [row |-> r, reason |-> SkuNotFound(r)])
        l1 == [l EXCEPT !.usableRows = usable, !.skipped = l.skipped \o skips]
    IN  IF Len(usable) = 0
        THEN Return(l1, [note |-> "All rows skipped due to missing SKUs",
                         phase |-> l1.phase], 200)
        ELSE Goto([l1 EXCEPT
                     !.phase = "preload_batches",
                     !.batchNosArr = Dedup(MapSeq(usable, LAMBDA r : r.batch_no)),
                     !.batches = << >>, !.i = 0],
                  "preload_batches")

BatchKey(b) == b.batch_no

\* batchEarliestByNo keeping the date of the first row of the batch
batchEarliestFirstSeen(rows, bn, ex) ==
    LET hit == { k \in 1..Len(rows) : rows[k].batch_no = bn }
    IN  rows[CHOOSE k \in hit : \A j \in hit : k <= j].date_in

\* batchEarliestByNo.get(bn) after the loop over rows: ex is the value held
\* so far (the empty string when there is none yet)
RECURSIVE batchEarliestByNo(_, _, _)
batchEarliestByNo(rows, bn, ex) ==
    IF rows = << >> THEN ex
    ELSE LET r == Head(rows)
         IN  IF r.batch_no = bn /\ (ex = << >> \/ StrLess(r.date_in, ex))
             THEN batchEarliestByNo(Tail(rows), bn, r.date_in)
             ELSE batchEarliestByNo(Tail(rows), bn, ex)

\* batchNoToSkuId.get(bn): the sku_id of the first row with that batch_no
batchNoToSkuId(rows, bn) ==
    LET hit == { k \in 1..Len(rows) : rows[k].batch_no = bn }
    IN  rows[CHOOSE k \in hit : \A j \in hit : k <= j].sku_id

MissingBatchRecord(rows, bn) ==
    [ sku_id |-> batchNoToSkuId(rows, bn), batch_no |-> bn,
      date_in |-> batchEarliestByNo(rows, bn, << >>) ]

\* missingBatchPayloadOf taking the earliest date over every validated row
missingBatchPayloadAllRows(l) ==
    MapSeq(SelectSeq(l.batchNosArr, LAMBDA bn : ~MapHas(l.batches, BatchKey, bn)),
           LAMBDA bn : [ sku_id |-> batchNoToSkuId(l.usableRows, bn), batch_no |-> bn,
                         date_in |-> batchEarliestByNo(l.rows, bn, << >>) ])

\* missingBatchPayloadOf with a record for each usable row of a missing batch
missingBatchPayloadPerRow(l) ==
    MapSeq(SelectSeq(l.usableRows, LAMBDA r : ~MapHas(l.batches, BatchKey, r.batch_no)),
           LAMBDA r : MissingBatchRecord(l.usableRows, r.batch_no))

missingBatchPayloadOf(l) ==
    MapSeq(SelectSeq(l.batchNosArr, LAMBDA bn : ~MapHas(l.batches, BatchKey, bn)),
           LAMBDA bn : MissingBatchRecord(l.usableRows, bn))

BatchNotResolved(r) ==
    [text |-> "Batch not resolved for (batch_no=)", args |-> << r.batch_no >>]

InventoryRecord(r, b) ==
    [ sku_code |-> r.sku_code, brand_name |-> r.brand_name, batch_no |-> r.batch_no,
      sku_id |-> r.sku_id, batch_id |-> b.id, barcode |-> r.barcode,
      date_in |-> r.date_in, warranty_months |-> r.warranty_months ]

\* BuildInventory without the batchMap guard: a row whose batch is not in
\* the map goes into the payload with no batch_id
BuildInventoryUnguarded(l) ==
    LET found(r) == MapHas(l.batches, BatchKey, r.batch_no)
        payload == MapSeq(l.usableRows,
                          LAMBDA r : InventoryRecord(r, IF found(r)
                                                        THEN MapGet(l.batches, BatchKey,
                                                                    r.batch_no)
                                                        ELSE [id |-> 0]))
        l1 == [l EXCEPT !.phase = "build_inventory_payload",
                        !.inventoryPayload = payload]
    IN  Goto([l1 EXCEPT !.phase = "insert_inventory_chunks",
                        !.duplicateCount = 0, !.i = 0],
             "insert_inventory_chunks")

\* 5) Build inventory payload, up to the first insert call.
BuildInventory(l) ==
    LET found(r) == MapHas(l.batches, BatchKey, r.batch_no)
        payload == MapSeq(SelectSeq(l.usableRows, found),
                          LAMBDA r : InventoryRecord(r, MapGet(l.batches, BatchKey,
                                                               r.batch_no)))
        skips == MapSeq(SelectSeq(l.usableRows, LAMBDA r : ~found(r)),
                        LAMBDA r : [row |-> r, reason |-> BatchNotResolved(r)])
        l1 == [l EXCEPT !.phase = "build_inventory_payload",
                        !.inventoryPayload = payload, !.skipped = l.skipped \o skips]
    IN  IF Len(payload) = 0
        THEN Return(l1, [note |-> "Nothing to insert after resolving SKUs/Batches.",
                         phase |-> l1.phase], 200)
        ELSE Goto([l1 EXCEPT !.phase = "insert_inventory_chunks",
                             !.duplicateCount = 0, !.i = 0],
                  "insert_inventory_chunks")

\* AfterBatches sending every batch number of the request to the upsert
AfterBatchesAlwaysUpsert(l) ==
    Goto([l EXCEPT !.phase = "upsert_batches",
                   !.missingBatchPayload =
                       MapSeq(l.batchNosArr,
                              LAMBDA bn : MissingBatchRecord(l.usableRows, bn))],
         "upsert_batches")

\* AfterBatches leaving the tag of an earlier phase in `phase`
AfterBatchesStalePhase(l) ==
    LET l1 == [l EXCEPT !.phase = "preload_skus",
                        !.missingBatchPayload = missingBatchPayloadOf(l)]
    IN  IF Len(l1.missingBatchPayload) > 0
        THEN Goto(l1, "upsert_batches")
        ELSE BuildInventory(l1)

\* After the last page of the batch preload: batchMap and the upsert payload.
AfterBatches(l) ==
    LET l1 == [l EXCEPT !.phase = "upsert_batches",
                        !.missingBatchPayload = missingBatchPayloadOf(l)]
    IN  IF Len(l1.missingBatchPayload) > 0
        THEN Goto(l1, "upsert_batches")
        ELSE BuildInventory(l1)

DuplicateReason(rec) ==
    [text |-> "Barcode already exists (duplicate): ", args |-> << rec.barcode >>]

\* The character U+2026 appended to a text that was cut.
Ellipsis == "U+2026"

\* The text passed on uncut
truncateNothing(s, n) ==
    s

\* s && s.length > n ? s.slice(0, n) + "\u2026" : s
truncate(s, n) ==
    IF s # << >> /\ Len(s) > n THEN Append(SubSeq(s, 1, n), Ellipsis) ELSE s

BulkInsertError(err) ==
    [text |-> "Supabase error (bulk insert): ", args |-> << truncate(err, ERROR_TEXT_MAX) >>]

\* ClassifyChunk counting every row of an answered chunk as inserted
ClassifyChunkAllInserted(l, chunk, data) ==
    [l EXCEPT !.insertedCount = @ + Len(chunk)]

\* The classification of a chunk against the rows echoed by the store.
ClassifyChunk(l, chunk, data) ==
    LET dups == SelectSeq(chunk, LAMBDA row :
                    ~\E k \in 1..Len(data) : data[k].barcode = row.barcode)
    IN  [l EXCEPT !.insertedCount = @ + Len(data),
                  !.duplicateCount = @ + Len(dups),
                  !.skipped = @ \o MapSeq(dups, LAMBDA row :
                                  [row |-> row, reason |-> DuplicateReason(row)])]

\* NextChunk stepping one record past the chunk size
NextChunkSkipsOne(l) ==
    LET l1 == [l EXCEPT !.i = @ + INVENTORY_CHUNK_SIZE + 1]
    IN  IF l1.i < Len(l1.inventoryPayload)
        THEN Goto(l1, "insert_inventory_chunks")
        ELSE LET l2 == [l1 EXCEPT !.phase = "done"]
             IN  Return(l2,
                        [ inserted |-> l2.insertedCount,
                          duplicates_skipped |-> l2.duplicateCount,
                          skippedRows |-> CappedSkipped(l2.skipped),
                          note |-> "Batched mode" ],
                        200)

\* The end of an iteration of the insert loop: the next chunk, or "Done".
NextChunk(l) ==
    LET l1 == [l EXCEPT !.i = @ + INVENTORY_CHUNK_SIZE]
    IN  IF l1.i < Len(l1.inventoryPayload)
        THEN Goto(l1, "insert_inventory_chunks")
        ELSE LET l2 == [l1 EXCEPT !.phase = "done"]
             IN  Return(l2,
                        [ inserted |-> l2.insertedCount,
                          duplicates_skipped |-> l2.duplicateCount,
                          skippedRows |-> CappedSkipped(l2.skipped),
                          note |-> "Batched mode" ],
                        200)

\* ------------------------------------------------------------------ inputs
\* A row in canonical field names: brand "nell " (stored as "Nell"), a
\* month/day/year date.
RawNell ==
    RawRow([ sku_code |-> Str(<< "S", "1" >>),
             brand_name |-> Str(<< "n", "e", "l", "l", " " >>),
             batch_no |-> Str(<< "B", "1" >>),
             barcode |-> Str(<< "X", "1" >>),
             date_in |-> Str(<< "1", "/", "2", "0", "/", "2", "0", "2", "5" >>),
             warranty_months |-> Num(12) ])

\* A row in alias field names: same sku_code and batch_no as RawNell under
\* another brand, an earlier ISO date.
RawAcme ==
    RawRow([ sku |-> Str(<< "S", "1" >>),
             brand |-> Str(<< "A", "c", "m", "e" >>),
             batch |-> Str(<< " ", "B", "1" >>),
             code128 |-> Str(<< "X", "2" >>),
             date |-> Str(<< "2", "0", "2", "5", "-", "0", "1", "-", "1", "0" >>),
             warranty |-> Str(<< "6" >>) ])

\* A row whose barcode is blank.
RawNoBarcode ==
    RawRow([ sku_code |-> Str(<< "S", "1" >>),
             brand_name |-> Str(<< "N", "e", "l", "l" >>),
             batch_no |-> Str(<< "B", "1" >>),
             barcode |-> Str(<< " " >>),
             date_in |-> Str(<< "2", "0", "2", "5", "-", "0", "1", "-", "0", "5" >>) ])

RowPool == { RawNell, RawAcme, RawNoBarcode }

RECURSIVE SeqsUpTo(_, _)
SeqsUpTo(S, n) ==
    IF n = 0 THEN { << >> }
    ELSE LET shorter == SeqsUpTo(S, n - 1)
         IN  shorter \cup { Append(q, x) : q \in shorter, x \in S }

Bodies ==
    { MalformedBody, NoRowsBody } \cup { RowsBody(rs) : rs \in SeqsUpTo(RowPool, MaxRows) }

\* ----------------------------------------------------------------- actions
Init ==
    /\ \E c \in StoreContents : brandsT = c.brands /\ skusT = c.skus
    /\ batchesT = << >>
    /\ inventoryT = << >>
    /\ pc = [r \in Req |-> "idle"]
    /\ loc = [r \in Req |-> FreshLoc]
    /\ resp = [r \in Req |-> NoResp]
    /\ calls = [r \in Req |-> << >>]
    /\ atStart = [r \in Req |-> [batches |-> << >>, inventory |-> << >>]]

Step(r, o) ==
    /\ pc' = [pc EXCEPT ![r] = o.pc]
    /\ loc' = [loc EXCEPT ![r] = o.l]
    /\ resp' = [resp EXCEPT ![r] = o.resp]

\* The log of outbound calls: the request sent (kind, arg), the phase in
\* which it was sent, the store's answer, the rows it returned (for an
\* upsert, which returns none: the stored batches its records collided
\* with) and the text of its error response.
Log(r, kind, arg, outcome, result, text) ==
    calls' = [calls EXCEPT ![r] =
                 Append(@, [kind |-> kind, phase |-> loc[r].phase, arg |-> arg,
                            outcome |-> outcome, result |-> result, text |-> text])]

\* A request arrives: the handler runs up to its first outbound call.
Start(r) ==
    /\ pc[r] = "idle"
    /\ \E key \in BOOLEAN, body \in Bodies : Step(r, Begin(key, body))
    /\ calls' = [calls EXCEPT ![r] = << >>]
    /\ atStart' = [atStart EXCEPT ![r] = [batches |-> batchesT, inventory |-> inventoryT]]
    /\ UNCHANGED << brandsT, skusT, batchesT, inventoryT >>

\* One page of the brand preload: fetchJson, then the code up to the next call.
\* The store's answer is outcome.
PreloadBrandsOn(r, outcome) ==
    /\ pc[r] = "preload_brands"
    /\ LET l == loc[r]
           part == Slice(l.brandNamesArr, l.i, BRAND_IN_CHUNK)
       IN
             /\ Log(r, "brands", part, outcome,
                    IF outcome = "ok" THEN SelectBrands(brandsT, part) ELSE << >>, << >>)
             /\ IF outcome = "fail" THEN Step(r, Catch(l))
                ELSE LET l1 == [l EXCEPT !.brands = @ \o SelectBrands(brandsT, part),
                                         !.i = @ + BRAND_IN_CHUNK]
                     IN  Step(r, IF l1.i < Len(l1.brandNamesArr)
                                 THEN Goto(l1, "preload_brands")
                                 ELSE AfterBrands(l1))
    /\ UNCHANGED << brandsT, skusT, batchesT, inventoryT, atStart >>

PreloadBrands(r) ==
    \E outcome \in { "ok", "fail" } : PreloadBrandsOn(r, outcome)

\* One page of the SKU preload.
\* The store's answer is outcome.
PreloadSkusOn(r, outcome) ==
    /\ pc[r] = "preload_skus"
    /\ LET l == loc[r]
           part == Slice(l.skuPairs, l.i, SKU_PAIR_CHUNK)
       IN
             /\ Log(r, "skus", part, outcome,
                    IF outcome = "ok" THEN SelectSkus(skusT, part) ELSE << >>, << >>)
             /\ IF outcome = "fail" THEN Step(r, Catch(l))
                ELSE LET l1 == [l EXCEPT !.skus = @ \o SelectSkus(skusT, part),
                                         !.i = @ + SKU_PAIR_CHUNK]
                     IN  Step(r, IF l1.i < Len(l1.skuPairs)
                                 THEN Goto(l1, "preload_skus")
                                 ELSE AfterSkus(l1))
    /\ UNCHANGED << brandsT, skusT, batchesT, inventoryT, atStart >>

PreloadSkus(r) ==
    \E outcome \in { "ok", "fail" } : PreloadSkusOn(r, outcome)

\* One page of the batch preload.
\* The store's answer is outcome.
PreloadBatchesOn(r, outcome) ==
    /\ pc[r] = "preload_batches"
    /\ LET l == loc[r]
           part == Slice(l.batchNosArr, l.i, BATCH_IN_CHUNK)
       IN
             /\ Log(r, "batches", part, outcome,
                    IF outcome = "ok" THEN SelectBatches(batchesT, part) ELSE << >>, << >>)
             /\ IF outcome = "fail" THEN Step(r, Catch(l))
                ELSE LET l1 == [l EXCEPT !.batches = @ \o SelectBatches(batchesT, part),
                                         !.i = @ + BATCH_IN_CHUNK]
                     IN  Step(r, IF l1.i < Len(l1.batchNosArr)
                                 THEN Goto(l1, "preload_batches")
                                 ELSE AfterBatches(l1))
    /\ UNCHANGED << brandsT, skusT, batchesT, inventoryT, atStart >>

PreloadBatches(r) ==
    \E outcome \in { "ok", "fail" } : PreloadBatchesOn(r, outcome)

\* No answer of the store taken for a conflict
isConflictNever(outcome) ==
    FALSE

\* upsert.status === 409 || /23505/.test(errText) || ...
isConflict(outcome) ==
    outcome = "conflict"

\* The single upsert of the missing batches. The store answers with success
\* (the records are merged or inserted), with a 409 / unique violation, or
\* with another error; or the fetch throws.
UpsertBatchesOn(r, outcome) ==
    /\ pc[r] = "upsert_batches"
    /\ LET l == loc[r]
       IN
             /\ Log(r, "upsert", l.missingBatchPayload, outcome,
                    SelectBatches(batchesT, MapSeq(l.missingBatchPayload,
                                                   LAMBDA rec : rec.batch_no)),
                    << >>)
             /\ batchesT' = IF outcome = "ok"
                            THEN UpsertBatchRows(batchesT, l.missingBatchPayload)
                            ELSE batchesT
             /\ IF outcome = "throw" THEN Step(r, Catch(l))
                ELSE IF outcome # "ok" /\ ~isConflict(outcome)
                THEN Step(r, Return(l, [error |-> "Failed to upsert batches", phase |-> l.phase], 500))
                ELSE Step(r, Goto([l EXCEPT !.phase = "refetch_batches",
                                            !.batches = << >>, !.i = 0],
                                  "refetch_batches"))
    /\ UNCHANGED << brandsT, skusT, inventoryT, atStart >>

UpsertBatches(r) ==
    \E outcome \in { "ok", "conflict", "error", "throw" } : UpsertBatchesOn(r, outcome)

\* One page of the re-fetch of batches after the upsert.
\* The store's answer is outcome.
RefetchBatchesOn(r, outcome) ==
    /\ pc[r] = "refetch_batches"
    /\ LET l == loc[r]
           part == Slice(l.batchNosArr, l.i, BATCH_IN_CHUNK)
       IN
             /\ Log(r, "refetch", part, outcome,
                    IF outcome = "ok" THEN SelectBatches(batchesT, part) ELSE << >>, << >>)
             /\ IF outcome = "fail" THEN Step(r, Catch(l))
                ELSE LET l1 == [l EXCEPT !.batches = @ \o SelectBatches(batchesT, part),
                                         !.i = @ + BATCH_IN_CHUNK]
                     IN  Step(r, IF l1.i < Len(l1.batchNosArr)
                                 THEN Goto(l1, "refetch_batches")
                                 ELSE BuildInventory(l1))
    /\ UNCHANGED << brandsT, skusT, batchesT, inventoryT, atStart >>

RefetchBatches(r) ==
    \E outcome \in { "ok", "fail" } : RefetchBatchesOn(r, outcome)

\* The texts of the store's error responses: one of ERROR_TEXT_MAX
\* characters, one a character longer.
ErrorTexts ==
    { << "e", "r", "r" >>, << "e", "r", "r", "s" >> }

\* One chunk of the inventory insert. The store answers with success and the
\* rows it inserted, or with an error status; or the fetch throws.
InsertInventoryChunkOn(r, outcome, err) ==
    /\ pc[r] = "insert_inventory_chunks"
    /\ LET l == loc[r]
           chunk == Slice(l.inventoryPayload, l.i, INVENTORY_CHUNK_SIZE)
           done == InsertInventoryRows(inventoryT, chunk, << >>)
       IN
             /\ Log(r, "insert", chunk, outcome,
                    IF outcome = "ok" THEN done.echoed ELSE << >>, err)
             /\ inventoryT' = IF outcome = "ok" THEN done.table ELSE inventoryT
             /\ CASE outcome = "throw" -> Step(r, Catch(l))
                  [] outcome = "rejected" ->
                       Step(r, NextChunk([l EXCEPT !.skipped = @ \o MapSeq(chunk,
                               LAMBDA bad : [row |-> bad, reason |-> BulkInsertError(err)])]))
                  [] OTHER -> Step(r, NextChunk(ClassifyChunk(l, chunk, done.echoed)))
    /\ UNCHANGED << brandsT, skusT, batchesT, atStart >>

InsertInventoryChunk(r) ==
    \E outcome \in { "ok", "rejected", "throw" } :
    \E err \in IF outcome = "rejected" THEN ErrorTexts ELSE { << >> } :
        InsertInventoryChunkOn(r, outcome, err)

\* The response has been delivered: the invocation and its locals are gone.
Finish(r) ==
    /\ pc[r] = "done"
    /\ pc' = [pc EXCEPT ![r] = "idle"]
    /\ loc' = [loc EXCEPT ![r] = FreshLoc]
    /\ resp' = [resp EXCEPT ![r] = NoResp]
    /\ calls' = [calls EXCEPT ![r] = << >>]
    /\ atStart' = [atStart EXCEPT ![r] = [batches |-> << >>, inventory |-> << >>]]
    /\ UNCHANGED << brandsT, skusT, batchesT, inventoryT >>

Next ==
    \E r \in Req :
        \/ Start(r)
        \/ Finish(r)
        \/ PreloadBrands(r)
        \/ PreloadSkus(r)
        \/ PreloadBatches(r)
        \/ UpsertBatches(r)
        \/ RefetchBatches(r)
        \/ InsertInventoryChunk(r)

Spec == Init /\ [][Next]_vars

\* ------------------------------------------------------------------ claims
Responded(r) == pc[r] = "done"

Body(r) == resp[r].body

Has(r, k) == k \in DOMAIN resp[r].body

\* The outbound calls of kind k issued so far by invocation r.
CallsOf(r, k) ==
    SelectSeq(calls[r], LAMBDA c : c.kind = k)

RECURSIVE SumLen(_)
SumLen(cs) ==
    IF cs = << >> THEN 0 ELSE Len(Head(cs).result) + SumLen(Tail(cs))

\* The number of rows the store echoed as inserted to invocation r so far.
EchoedSoFar(r) ==
    SumLen(CallsOf(r, "insert"))

\* C1: every response (early 200, final 200, 400, 500, catch-all) carries
\* numeric `added` and `skipped`; `added` is the number of rows counted
\* inserted so far (the rows the store echoed to this request) and `skipped`
\* is the length of the full skip list accumulated so far.
C1_AddedSkippedOnEveryResponse ==
    \A r \in Req :
        Responded(r) =>
            /\ resp[r].status \in { 200, 400, 500 }
            /\ Has(r, "added") /\ Has(r, "skipped")
            /\ Body(r)["added"] \in Nat /\ Body(r)["skipped"] \in Nat
            /\ Body(r)["added"] = loc[r].insertedCount
            /\ Body(r)["added"] = EchoedSoFar(r)
            /\ Body(r)["skipped"] = Len(loc[r].skipped)

\* A 500 from the catch block after rows were inserted and rows were skipped,
\* and a response whose skip list is longer than the cap.
C1_Witness ==
    \E r \in Req :
        /\ Responded(r) /\ resp[r].status = 500
        /\ Body(r)["added"] > 0 /\ Body(r)["skipped"] > 0


\* The request reached the final "Done" response.
FinalOk(r) ==
    Responded(r) /\ resp[r].status = 200 /\ loc[r].phase = "done"

\* Every outbound call issued so far was answered with success.
AllCallsOk(r) ==
    \A k \in 1..Len(calls[r]) : calls[r][k].outcome = "ok"

InputRows(r) == loc[r].body.rows

Barcodes(T) == { T[k].barcode : k \in 1..Len(T) }

\* C2: for a request that reaches the final 200 response every one of the N
\* submitted rows is counted inserted or is in the full skip list exactly
\* once, so added + skipped = N.
C2_EveryRowClassifiedOnce ==
    \A r \in Req :
        FinalOk(r) => Body(r)["added"] + Body(r)["skipped"] = Len(InputRows(r))

\* C3 as stated: the second call with the same well-formed row answers
\* inserted = 1 and duplicates_skipped = 1.
SingleRowDone(r) ==
    FinalOk(r) /\ AllCallsOk(r) /\ Len(InputRows(r)) = 1

C3_SecondCallInsertedOne ==
    \A r \in Req :
        (SingleRowDone(r) /\ loc[r].inventoryPayload[1] \in
                                 { atStart[r].inventory[k] : k \in 1..Len(atStart[r].inventory) })
            => Body(r)["inserted"] = 1 /\ Body(r)["duplicates_skipped"] = 1

\* C3 amended: a call with one well-formed, resolvable row whose barcode is
\* not stored answers inserted = 1, duplicates_skipped = 0; a call whose
\* barcode is stored already (the second call with the same row) answers
\* inserted = 0, duplicates_skipped = 1; either way the store holds exactly
\* one inventory row with that barcode afterwards.
C3_SecondCallIsDuplicate ==
    \A r \in Req :
        SingleRowDone(r) =>
            LET rec == loc[r].inventoryPayload[1]
                before == rec.barcode \in Barcodes(atStart[r].inventory)
            IN  /\ Body(r)["inserted"] = (IF before THEN 0 ELSE 1)
                /\ Body(r)["duplicates_skipped"] = (IF before THEN 1 ELSE 0)
                /\ Cardinality({ k \in 1..Len(inventoryT) :
                                   inventoryT[k].barcode = rec.barcode }) = 1

\* The second call with the very row an earlier call inserted.
C3_Witness ==
    \E r \in Req :
        /\ SingleRowDone(r)
        /\ loc[r].inventoryPayload[1] \in
               { atStart[r].inventory[k] : k \in 1..Len(atStart[r].inventory) }
        /\ Body(r)["inserted"] = 0 /\ Body(r)["duplicates_skipped"] = 1

\* The SKU stored under the brand named name (ignoring case) with code code.
StoredSkuIds(name, code) ==
    { skusT[k].id : k \in { j \in 1..Len(skusT) :
          /\ skusT[j].sku_code = code
          /\ \E b \in 1..Len(brandsT) :
                 brandsT[b].id = skusT[j].brand_id /\ ILike(brandsT[b].name, name) } }

\* The records sent to the inventory table so far, and the rows echoed.
RECURSIVE Sent(_)
Sent(cs) ==
    IF cs = << >> THEN << >> ELSE Head(cs).arg \o Sent(Tail(cs))

RECURSIVE Echoed(_)
Echoed(cs) ==
    IF cs = << >> THEN << >> ELSE Head(cs).result \o Echoed(Tail(cs))

SeqToSet(q) == { q[k] : k \in 1..Len(q) }

\* Rows i and j of the request carry the same sku_code under different
\* brands, both stored as SKUs, each with a barcode of its own that is new
\* to the store.
SameCodeTwoBrands(r, a, b) ==
    /\ a.sku_code = b.sku_code
    /\ ~ILike(a.brand_name, b.brand_name)
    /\ StoredSkuIds(a.brand_name, a.sku_code) # {}
    /\ StoredSkuIds(b.brand_name, b.sku_code) # {}
    /\ \A x \in { a, b } :
         /\ x.barcode \notin Barcodes(atStart[r].inventory)
         /\ Cardinality({ k \in 1..Len(loc[r].rows) :
                            loc[r].rows[k].barcode = x.barcode }) = 1

\* C4: every record sent to the inventory table carries the id of the SKU
\* stored under its own brand; two rows with the same sku_code under
\* different brands, both stored, get different sku_id values and both are
\* inserted (when every call succeeds).
C4_BrandScopedSku ==
    \A r \in Req :
        /\ \A rec \in SeqToSet(Sent(CallsOf(r, "insert"))) :
               StoredSkuIds(rec.brand_name, rec.sku_code) = { rec.sku_id }
        /\ (FinalOk(r) /\ AllCallsOk(r)) =>
               \A a, b \in SeqToSet(loc[r].rows) :
                   SameCodeTwoBrands(r, a, b) =>
                       \E ra, rb \in SeqToSet(Echoed(CallsOf(r, "insert"))) :
                           /\ ra.barcode = a.barcode /\ rb.barcode = b.barcode
                           /\ ra.sku_id # rb.sku_id
                           /\ ra \in SeqToSet(inventoryT) /\ rb \in SeqToSet(inventoryT)

C4_Witness ==
    \E r \in Req :
        /\ FinalOk(r) /\ AllCallsOk(r)
        /\ \E a, b \in SeqToSet(loc[r].rows) : SameCodeTwoBrands(r, a, b)
        /\ Body(r)["inserted"] = 2

\* The usable rows of invocation r that carry batch number bn.
RowsOfBatch(r, bn) ==
    SelectSeq(loc[r].usableRows, LAMBDA x : x.batch_no = bn)

\* No batch with number bn was stored when invocation r preloaded batches.
BatchWasMissing(r, bn) ==
    /\ CallsOf(r, "batches") # << >>
    /\ \A b \in SeqToSet(Echoed(CallsOf(r, "batches"))) : b.batch_no # bn

StoredBatches(bn) ==
    { k \in 1..Len(batchesT) : batchesT[k].batch_no = bn }

\* C5: for a batch_no that no stored batch carries, the upsert payload holds
\* exactly one record; its sku_id is the SKU of the first row (in input
\* order) with that batch_no and its date_in the least date_in of the rows
\* with that batch_no (the rows being those that have a SKU); once the
\* upsert has succeeded the store holds exactly one batch of that number
\* with these values, and every inventory record of that batch_no sent
\* afterwards carries its id.
C5_GlobalBatch ==
    \A r \in Req :
        \A c \in SeqToSet(CallsOf(r, "upsert")) :
            \A bn \in { x.batch_no : x \in SeqToSet(loc[r].usableRows) } :
                BatchWasMissing(r, bn) =>
                    LET rows == RowsOfBatch(r, bn)
                        recs == { k \in 1..Len(c.arg) : c.arg[k].batch_no = bn }
                    IN  /\ Cardinality(recs) = 1
                        /\ \A k \in recs :
                             /\ c.arg[k].sku_id = rows[1].sku_id
                             /\ \E x \in SeqToSet(rows) : x.date_in = c.arg[k].date_in
                             /\ \A x \in SeqToSet(rows) :
                                    ~StrLess(x.date_in, c.arg[k].date_in)
                             /\ c.outcome = "ok" =>
                                  /\ Cardinality(StoredBatches(bn)) = 1
                                  /\ \A j \in StoredBatches(bn) :
                                       /\ batchesT[j].sku_id = rows[1].sku_id
                                       /\ batchesT[j].date_in = c.arg[k].date_in
                                       /\ \A rec \in SeqToSet(Sent(CallsOf(r, "insert"))) :
                                            rec.batch_no = bn =>
                                                rec.batch_id = batchesT[j].id

\* Two rows of one batch_no with different SKUs, the first with the later
\* date, were inserted under the one batch created for them.
C5_Witness ==
    \E r \in Req :
        /\ FinalOk(r) /\ AllCallsOk(r)
        /\ \E c \in SeqToSet(CallsOf(r, "upsert")) :
             \E k \in 1..Len(c.arg) :
                LET rows == RowsOfBatch(r, c.arg[k].batch_no)
                IN  /\ Len(rows) >= 2
                    /\ rows[1].sku_id # rows[2].sku_id
                    /\ StrLess(rows[2].date_in, rows[1].date_in)
                    /\ c.arg[k].date_in = rows[2].date_in
        /\ Body(r)["inserted"] = 2

\* The rows of the request's body whose normalised form lacks a required
\* field, as normalised rows.
MissingRows(r) ==
    { NormalizedRowOf(InputRows(r)[k], k - 1) : k \in
        { j \in 1..Len(InputRows(r)) :
            MissingField(NormalizedRowOf(InputRows(r)[j], j - 1)) } }

Normalised(r) ==
    /\ loc[r].hasKey /\ loc[r].body.hasRows
    /\ \A k \in 1..Len(InputRows(r)) : ~RowThrows(InputRows(r)[k])

\* C6: in any request a row lacking a required field is present in the
\* response's skippedRows with the "Missing required field(s)" reason, and
\* is not counted in `inserted`.
C6_MissingFieldInSkippedRows ==
    \A r \in Req :
        (Responded(r) /\ Normalised(r)) =>
            \A m \in MissingRows(r) :
                /\ Has(r, "skippedRows")
                /\ \E e \in SeqToSet(Body(r)["skippedRows"]) :
                       e.row = m /\ e.reason = MissingReason
                /\ Body(r)["added"] = EchoedSoFar(r)

\* No stored brand is named name, ignoring case.
NoSuchBrand(name) ==
    \A b \in 1..Len(brandsT) : ~ILike(brandsT[b].name, name)

\* Brand resolution of invocation r is over.
BrandsResolved(r) ==
    /\ CallsOf(r, "brands") # << >>
    /\ \A c \in SeqToSet(CallsOf(r, "brands")) : c.outcome = "ok"
    /\ pc[r] # "preload_brands"

SkipsWith(r, t) ==
    SelectSeq(loc[r].skipped, LAMBDA e : e.reason.text = t)

RECURSIVE SumIgnored(_)
SumIgnored(cs) ==
    IF cs = << >> THEN 0
    ELSE (IF Head(cs).outcome = "ok" THEN Len(Head(cs).arg) - Len(Head(cs).result) ELSE 0)
         + SumIgnored(Tail(cs))

\* Every outbound call was answered (no fetch threw), every lookup and the
\* upsert with success.
InfrastructureOk(r) ==
    \A c \in SeqToSet(calls[r]) :
        IF c.kind = "insert" THEN c.outcome \in { "ok", "rejected" } ELSE c.outcome = "ok"

\* C8: with a valid body, the credential present and every resolver and
\* upsert call successful, the response is a 200 and every row with a
\* row-level error is in the skip list with its reason: the rows lacking a
\* field, the rows of unknown brand or SKU, the rows the store ignored as
\* duplicate barcodes and the rows of rejected chunks.
C8_RowErrorsNeverAbort ==
    \A r \in Req :
        (Responded(r) /\ Normalised(r) /\ Len(InputRows(r)) > 0 /\ InfrastructureOk(r)) =>
            /\ resp[r].status = 200
            /\ \A m \in MissingRows(r) :
                  \E e \in SeqToSet(loc[r].skipped) : e.row = m /\ e.reason = MissingReason
            /\ \A x \in SeqToSet(loc[r].rows) :
                  (BrandsResolved(r) /\ NoSuchBrand(x.brand_name)) =>
                      \E e \in SeqToSet(loc[r].skipped) : e.row = x
            /\ Len(SkipsWith(r, "Barcode already exists (duplicate): "))
                   = SumIgnored(CallsOf(r, "insert"))

\* The phase in which each kind of call is issued (the handler sets `phase`
\* before the call).
PhaseOfKind ==
    [ brands |-> "preload_brands", skus |-> "preload_skus",
      batches |-> "preload_batches", upsert |-> "upsert_batches",
      refetch |-> "refetch_batches" ]

\* The rows the handler still carried when it issued a call of kind k.
CarriedAt(r, k) ==
    CASE k = "brands" -> Len(loc[r].rows)
      [] k = "skus" -> Len(loc[r].rowsWithBrand)
      [] OTHER -> Len(loc[r].usableRows)

\* The request ended at call c with a 500 tagged with c's phase, carrying
\* the counters accumulated up to that call.
AbortedAt(r, c) ==
    /\ c = calls[r][Len(calls[r])]
    /\ Responded(r) /\ resp[r].status = 500
    /\ Has(r, "phase") /\ Body(r)["phase"] = PhaseOfKind[c.kind]
    /\ Has(r, "added") /\ Body(r)["added"] = EchoedSoFar(r)
    /\ Has(r, "skipped") /\ Body(r)["skipped"] = Len(loc[r].skipped)
    /\ Body(r)["skipped"] = Len(InputRows(r)) - CarriedAt(r, c.kind)

\* C9 as stated: a failed brand, SKU or batch lookup, batch upsert or batch
\* re-fetch (non-success status or thrown fetch) ends the request with a
\* 500 whose phase names the stage of that call, counters kept.
C9_FailedCallAborts ==
    \A r \in Req :
        \A c \in SeqToSet(calls[r]) :
            (c.kind \in DOMAIN PhaseOfKind /\ c.outcome # "ok") => AbortedAt(r, c)

\* C9 amended: the same, except that a 409 / unique-violation answer to the
\* batch upsert does not end the request.
C9_FailedCallAbortsButConflict ==
    \A r \in Req :
        \A c \in SeqToSet(calls[r]) :
            (c.kind \in DOMAIN PhaseOfKind /\ c.outcome # "ok"
               /\ ~(c.kind = "upsert" /\ c.outcome = "conflict")) => AbortedAt(r, c)

\* The re-fetch failed after rows had been skipped.
C9_Witness ==
    \E r \in Req :
        /\ Responded(r) /\ resp[r].status = 500
        /\ calls[r] # << >>
        /\ calls[r][Len(calls[r])].kind = "refetch"
        /\ calls[r][Len(calls[r])].outcome = "fail"
        /\ Body(r)["phase"] = "refetch_batches"
        /\ Body(r)["skipped"] > 0

\* The body is an input error: no JSON, no `rows` array, or an empty one.
InputError(r) ==
    \/ loc[r].body.kind = "malformed"
    \/ ~loc[r].body.hasRows
    \/ Len(loc[r].body.rows) = 0

NoStoreCall(r) ==
    /\ calls[r] = << >>
    /\ batchesT = atStart[r].batches /\ inventoryT = atStart[r].inventory

\* C10 as stated: a malformed body, a body without `rows` array or an empty
\* `rows` array yields a 400 and no outbound call.
C10_InputErrorIs400 ==
    \A r \in Req :
        (Responded(r) /\ InputError(r)) => resp[r].status = 400 /\ NoStoreCall(r)

\* C10 amended: the same when the store credential is present (without it
\* the answer is the 500 of the credential check, which comes first).
C10_InputErrorIs400WithKey ==
    \A r \in Req :
        (Responded(r) /\ InputError(r)) =>
            /\ NoStoreCall(r)
            /\ resp[r].status = (IF loc[r].hasKey THEN 400 ELSE 500)

\* An empty `rows` array was answered 400 while the store holds inventory.
C10_Witness ==
    \E r \in Req :
        /\ Responded(r) /\ loc[r].hasKey
        /\ loc[r].body.kind = "json" /\ loc[r].body.hasRows /\ Len(loc[r].body.rows) = 0
        /\ resp[r].status = 400
        /\ inventoryT # << >>

\* C11: without the store credential the handler answers 500 at once: the
\* phase is still "init" (the body is read under "parse_body"), no outbound
\* call is issued and the store is untouched, whatever the body is.
C11_MissingKeyIs500 ==
    \A r \in Req :
        (Responded(r) /\ ~loc[r].hasKey) =>
            /\ resp[r].status = 500
            /\ Body(r)["error"] = "Missing SUPABASE_SERVICE_ROLE_KEY"
            /\ Body(r)["phase"] = "init"
            /\ NoStoreCall(r)

\* A request with resolvable rows and no credential was answered.
C11_Witness ==
    \E r \in Req :
        /\ Responded(r) /\ ~loc[r].hasKey
        /\ loc[r].body.kind = "json" /\ Len(loc[r].body.rows) > 1
        /\ resp[r].status = 500

\* The first n entries of q.
FirstN(q, n) ==
    SubSeq(q, 1, IF n < Len(q) THEN n ELSE Len(q))

\* C12: in every response that carries skippedRows the array is the first
\* min(K, MAX_SKIPPED_RETURN) entries of the skip list of length K, in the
\* order of accumulation, and `skipped` is K.
C12_SkipListCap ==
    \A r \in Req :
        (Responded(r) /\ Has(r, "skippedRows")) =>
            /\ Body(r)["skippedRows"] = FirstN(loc[r].skipped, MAX_SKIPPED_RETURN)
            /\ Len(Body(r)["skippedRows"]) <= MAX_SKIPPED_RETURN
            /\ Body(r)["skipped"] = Len(loc[r].skipped)

\* A response whose skip list is longer than the cap.
C12_Witness ==
    \E r \in Req :
        /\ Responded(r) /\ Has(r, "skippedRows")
        /\ Len(loc[r].skipped) > MAX_SKIPPED_RETURN
        /\ Len(Body(r)["skippedRows"]) = MAX_SKIPPED_RETURN
        /\ Body(r)["skipped"] > MAX_SKIPPED_RETURN

\* C13: every response body carries `inserted`, `duplicates_skipped` and
\* `skippedRows`, the early 200 responses and the 400 / 500 responses
\* included.
C13_AllCountersOnEveryResponse ==
    \A r \in Req :
        Responded(r) =>
            Has(r, "inserted") /\ Has(r, "duplicates_skipped") /\ Has(r, "skippedRows")

\* ------------------------------------------------- the chunked resolvers
\* The three preload loops as functions of the chunk size: the pages of the
\* chunks of keys from index i on, pushed onto one array.
RECURSIVE brandsPaged(_, _, _, _)
brandsPaged(T, keys, i, size) ==
    IF i >= Len(keys) THEN << >>
    ELSE SelectBrands(T, Slice(keys, i, size)) \o brandsPaged(T, keys, i + size, size)

RECURSIVE skusPaged(_, _, _, _)
skusPaged(T, keys, i, size) ==
    IF i >= Len(keys) THEN << >>
    ELSE SelectSkus(T, Slice(keys, i, size)) \o skusPaged(T, keys, i + size, size)

RECURSIVE batchesPaged(_, _, _, _)
batchesPaged(T, keys, i, size) ==
    IF i >= Len(keys) THEN << >>
    ELSE SelectBatches(T, Slice(keys, i, size)) \o batchesPaged(T, keys, i + size, size)

\* new Map(); for (const b of brands) brandMap.set(normKey(b.name), b)
brandMap(arr) ==
    [k \in { BrandKey(arr[j]) : j \in 1..Len(arr) } |-> MapGet(arr, BrandKey, k)]

\* skuMap.set(`${s.brand_id}::${s.sku_code}`, s)
skuMap(arr) ==
    [k \in { SkuKey(arr[j]) : j \in 1..Len(arr) } |-> MapGet(arr, SkuKey, k)]

\* batchMap.set(b.batch_no, b)
batchMap(arr) ==
    [k \in { BatchKey(arr[j]) : j \in 1..Len(arr) } |-> MapGet(arr, BatchKey, k)]

\* The chunk sizes tried: from one key a page to all the keys in one page.
ChunkSizes == 1..(MaxRows + 1)

\* The sequences over S of at most n elements, no element twice.
DistinctSeqs(S, n) ==
    { q \in SeqsUpTo(S, n) : \A a, b \in 1..Len(q) : a # b => q[a] # q[b] }

\* Store rows and lookup keys of the resolver runs: brands whose names differ
\* by case or by a trailing blank only, two SKUs under one (brand_id,
\* sku_code), keys that match nothing, a brand name with an underscore.
BrandNELL == [id |-> "b3", name |-> << "N", "E", "L", "L" >>]
BrandNellBlank == [id |-> "b4", name |-> << "N", "e", "l", "l", " " >>]
SkuNellS2 == [id |-> "s3", sku_code |-> << "S", "2" >>, brand_id |-> "b1"]
SkuNellS1Again == [id |-> "s4", sku_code |-> << "S", "1" >>, brand_id |-> "b1"]
BatchB1 == [id |-> 1, sku_id |-> "s1", batch_no |-> << "B", "1" >>, date_in |-> << >>]
BatchB2 == [id |-> 2, sku_id |-> "s2", batch_no |-> << "B", "2" >>, date_in |-> << >>]
BatchLowerB1 == [id |-> 3, sku_id |-> "s1", batch_no |-> << "b", "1" >>, date_in |-> << >>]

BrandNameKeys ==
    { << "n", "e", "l", "l" >>, << "N", "e", "l", "l", "_" >>, << "A", "c", "m", "e" >>,
      << "Z", "e", "d" >> }

SkuPairKeys ==
    { << "b1", << "S", "1" >> >>, << "b2", << "S", "1" >> >>,
      << "b1", << "S", "2" >> >>, << "b2", << "S", "2" >> >> }

BatchNoKeys ==
    { << "B", "1" >>, << "B", "2" >>, << "b", "1" >>, << "B", "9" >> }

\* The validated row number i of a request, of brand name name.
RowOfBrand(name, i) ==
    [ sku_code |-> << "S", "1" >>, brand_name |-> name, batch_no |-> << "B", "1" >>,
      barcode |-> << "X", "1" >>,
      date_in |-> << "2", "0", "2", "5", "-", "0", "1", "-", "1", "0" >>,
      warranty_months |-> Null, rowIndex |-> i - 1 ]

\* A resolver run: a store content, a list of distinct keys; for the brand
\* names, the validated rows they were collected from.
ResolveInit ==
    /\ \E kind \in { "brands", "skus", "batches" } :
         /\ pc = [r \in Req |-> kind]
         /\ \E T \in DistinctSeqs(
                       CASE kind = "brands" -> { BrandNell, BrandAcme, BrandNELL, BrandNellBlank }
                         [] kind = "skus" -> { SkuNellS1, SkuAcmeS1, SkuNellS2, SkuNellS1Again }
                         [] OTHER -> { BatchB1, BatchB2, BatchLowerB1 }, 3),
               keys \in DistinctSeqs(
                       CASE kind = "brands" -> BrandNameKeys
                         [] kind = "skus" -> SkuPairKeys
                         [] OTHER -> BatchNoKeys, MaxRows) :
              /\ brandsT = IF kind = "brands" THEN T ELSE << >>
              /\ skusT = IF kind = "skus" THEN T ELSE << >>
              /\ batchesT = IF kind = "batches" THEN T ELSE << >>
              /\ loc = [r \in Req |->
                         [FreshLoc EXCEPT
                            !.hasKey = TRUE,
                            !.phase = "preload_" \o kind,
                            !.rows = IF kind = "brands"
                                     THEN [k \in 1..Len(keys) |-> RowOfBrand(keys[k], k)]
                                     ELSE << >>,
                            !.brandNamesArr = IF kind = "brands" THEN keys ELSE << >>,
                            !.skuPairs = IF kind = "skus" THEN keys ELSE << >>,
                            !.batchNosArr = IF kind = "batches" THEN keys ELSE << >>]]
    /\ inventoryT = << >>
    /\ resp = [r \in Req |-> NoResp]
    /\ calls = [r \in Req |-> << >>]
    /\ atStart = [r \in Req |-> [batches |-> << >>, inventory |-> << >>]]

\* The brand preload run with some chunk size.
ResolveBrands(r) ==
    /\ pc[r] = "brands"
    /\ \E size \in ChunkSizes :
         loc' = [loc EXCEPT ![r].brands = brandsPaged(brandsT, loc[r].brandNamesArr, 0, size)]
    /\ pc' = [pc EXCEPT ![r] = "brands_resolved"]
    /\ UNCHANGED << brandsT, skusT, batchesT, inventoryT, resp, calls, atStart >>

\* The SKU preload run with some chunk size.
ResolveSkus(r) ==
    /\ pc[r] = "skus"
    /\ \E size \in ChunkSizes :
         loc' = [loc EXCEPT ![r].skus = skusPaged(skusT, loc[r].skuPairs, 0, size)]
    /\ pc' = [pc EXCEPT ![r] = "skus_resolved"]
    /\ UNCHANGED << brandsT, skusT, batchesT, inventoryT, resp, calls, atStart >>

\* The batch preload run with some chunk size.
ResolveBatches(r) ==
    /\ pc[r] = "batches"
    /\ \E size \in ChunkSizes :
         loc' = [loc EXCEPT ![r].batches = batchesPaged(batchesT, loc[r].batchNosArr, 0, size)]
    /\ pc' = [pc EXCEPT ![r] = "batches_resolved"]
    /\ UNCHANGED << brandsT, skusT, batchesT, inventoryT, resp, calls, atStart >>

\* brandMap and the attachment of brand_id to the rows, after the preload.
AttachBrands(r) ==
    /\ pc[r] = "brands_resolved"
    /\ Step(r, AfterBrands(loc[r]))
    /\ UNCHANGED << brandsT, skusT, batchesT, inventoryT, calls, atStart >>

ResolveNext ==
    \E r \in Req :
        \/ ResolveBrands(r)
        \/ AttachBrands(r)
        \/ ResolveSkus(r)
        \/ ResolveBatches(r)

SpecResolve == ResolveInit /\ [][ResolveNext]_vars

\* C14: for a fixed store content and a fixed list of distinct keys, the
\* lookup table merged from the pages of the chunked resolver equals the
\* table of the single unchunked query, and so the table of any other chunk
\* size, for brands, SKU pairs and batch numbers.
C14_ChunkSizeInvariance ==
    \A r \in Req :
        /\ pc[r] = "brands_resolved" =>
              /\ brandMap(loc[r].brands)
                    = brandMap(SelectBrands(brandsT, loc[r].brandNamesArr))
              /\ \A c \in ChunkSizes :
                    brandMap(loc[r].brands)
                       = brandMap(brandsPaged(brandsT, loc[r].brandNamesArr, 0, c))
        /\ pc[r] = "skus_resolved" =>
              /\ skuMap(loc[r].skus) = skuMap(SelectSkus(skusT, loc[r].skuPairs))
              /\ \A c \in ChunkSizes :
                    skuMap(loc[r].skus) = skuMap(skusPaged(skusT, loc[r].skuPairs, 0, c))
        /\ pc[r] = "batches_resolved" =>
              /\ batchMap(loc[r].batches)
                    = batchMap(SelectBatches(batchesT, loc[r].batchNosArr))
              /\ \A c \in ChunkSizes :
                    batchMap(loc[r].batches)
                       = batchMap(batchesPaged(batchesT, loc[r].batchNosArr, 0, c))

\* ---------------------------------------------------- concurrent requests
\* Two invocations of the handler in flight against the one store; each
\* outbound call is one atomic step of the store, and the calls of the two
\* invocations interleave freely.
Conc == { 1, 2 }

\* The bodies of the concurrent requests: one resolvable row; the two rows
\* carry the same batch_no.
ConcBodies ==
    { RowsBody(<< RawNell >>), RowsBody(<< RawAcme >>) }

ConcInit ==
    /\ brandsT = << BrandNell, BrandAcme >>
    /\ skusT = << SkuNellS1, SkuAcmeS1 >>
    /\ batchesT = << >>
    /\ inventoryT = << >>
    /\ pc = [r \in Conc |-> "idle"]
    /\ loc = [r \in Conc |-> FreshLoc]
    /\ resp = [r \in Conc |-> NoResp]
    /\ calls = [r \in Conc |-> << >>]
    /\ atStart = [r \in Conc |-> [batches |-> << >>, inventory |-> << >>]]

\* A request arrives while another may be in flight.
ConcStart(r) ==
    /\ pc[r] = "idle"
    /\ \E body \in ConcBodies : Step(r, Begin(TRUE, body))
    /\ calls' = [calls EXCEPT ![r] = << >>]
    /\ atStart' = [atStart EXCEPT ![r] = [batches |-> batchesT, inventory |-> inventoryT]]
    /\ UNCHANGED << brandsT, skusT, batchesT, inventoryT >>

ConcNext ==
    \E r \in Conc :
        \/ ConcStart(r)
        \/ Finish(r)
        \/ PreloadBrands(r)
        \/ PreloadSkus(r)
        \/ PreloadBatches(r)
        \/ UpsertBatches(r)
        \/ RefetchBatches(r)
        \/ InsertInventoryChunk(r)

SpecConc == ConcInit /\ [][ConcNext]_vars

\* The re-fetch of invocation r is over and every page of it was answered.
Refetched(r) ==
    /\ CallsOf(r, "refetch") # << >>
    /\ \A c \in SeqToSet(CallsOf(r, "refetch")) : c.outcome = "ok"
    /\ pc[r] # "refetch_batches"

\* C15: a 409 / unique-violation answer to the batch upsert does not end the
\* request: the next call is the re-fetch of batches, and once that is over
\* the handler goes on to insert the inventory (or ends 200 with nothing to
\* insert); any other failure of the upsert ends the request at once with
\* status 500 and phase upsert_batches, no inventory insert being issued.
C15_UpsertConflictBenign ==
    \A r \in Conc :
        \A k \in 1..Len(calls[r]) :
            LET c == calls[r][k]
            IN  c.kind = "upsert" =>
                  /\ c.outcome = "conflict" =>
                        /\ IF k = Len(calls[r])
                           THEN pc[r] = "refetch_batches" /\ loc[r].phase = "refetch_batches"
                           ELSE calls[r][k + 1].kind = "refetch"
                        /\ Refetched(r) =>
                              \/ pc[r] = "insert_inventory_chunks"
                              \/ CallsOf(r, "insert") # << >>
                              \/ /\ Responded(r) /\ resp[r].status = 200
                                 /\ Body(r)["phase"] = "build_inventory_payload"
                  /\ c.outcome \in { "error", "throw" } =>
                        /\ k = Len(calls[r])
                        /\ Responded(r) /\ resp[r].status = 500
                        /\ Body(r)["phase"] = "upsert_batches"
                        /\ CallsOf(r, "insert") = << >>

\* After a conflict on the upsert the request re-fetched the batch another
\* request had created and inserted its row; and an upsert answered with
\* another error ended a request.
C15_Witness ==
    \E r \in Conc :
        /\ FinalOk(r)
        /\ \E c \in SeqToSet(CallsOf(r, "upsert")) : c.outcome = "conflict"
        /\ Body(r)["inserted"] = 1

\* Invocation r met no failure but the race: every call was answered with
\* success, or the upsert with a conflict while the store held a batch its
\* records collided with.
RaceOnly(r) ==
    \A c \in SeqToSet(calls[r]) :
        \/ c.outcome = "ok"
        \/ c.kind = "upsert" /\ c.outcome = "conflict" /\ c.result # << >>

BatchNosOf(r) ==
    { x.batch_no : x \in SeqToSet(loc[r].usableRows) }

\* C16: when two requests in flight both found the same batch_no missing and
\* both have finished, the store holds exactly one batch of that number,
\* both requests ended with the final 200, the inventory records of that
\* batch_no sent by both carry the id of that one batch, and no row was
\* skipped as "Batch not resolved".
C16_ConcurrentBatchCreation ==
    \A r1, r2 \in Conc :
        (r1 # r2 /\ Responded(r1) /\ Responded(r2) /\ RaceOnly(r1) /\ RaceOnly(r2)) =>
            \A bn \in BatchNosOf(r1) \cap BatchNosOf(r2) :
                (BatchWasMissing(r1, bn) /\ BatchWasMissing(r2, bn)) =>
                    /\ Cardinality(StoredBatches(bn)) = 1
                    /\ \A r \in { r1, r2 } :
                          /\ FinalOk(r)
                          /\ SkipsWith(r, "Batch not resolved for (batch_no=)") = << >>
                          /\ \E rec \in SeqToSet(Sent(CallsOf(r, "insert"))) :
                                rec.batch_no = bn
                          /\ \A rec \in SeqToSet(Sent(CallsOf(r, "insert"))) :
                                rec.batch_no = bn =>
                                    \A j \in StoredBatches(bn) :
                                        rec.batch_id = batchesT[j].id

\* Both requests found the batch missing; the upsert of one created it, the
\* upsert of the other was answered with a conflict, and both inserted their
\* row under the one batch.
C16_Witness ==
    \E r1, r2 \in Conc :
        /\ r1 # r2 /\ FinalOk(r1) /\ FinalOk(r2) /\ RaceOnly(r1) /\ RaceOnly(r2)
        /\ \E bn \in BatchNosOf(r1) \cap BatchNosOf(r2) :
              BatchWasMissing(r1, bn) /\ BatchWasMissing(r2, bn)
        /\ \E c \in SeqToSet(CallsOf(r2, "upsert")) : c.outcome = "conflict"
        /\ \E c \in SeqToSet(CallsOf(r1, "upsert")) : c.outcome = "ok"
        /\ Body(r1)["inserted"] = 1 /\ Body(r2)["inserted"] = 1
        /\ Len(batchesT) = 1

\* The barcodes of the records invocation r sent to the inventory table, and
\* of the rows the store echoed to it.
SentBarcodes(r) ==
    Barcodes(Sent(CallsOf(r, "insert")))

EchoedBarcodes(r) ==
    Barcodes(Echoed(CallsOf(r, "insert")))

\* The barcode was not stored when either invocation started.
NewToBoth(bc, r1, r2) ==
    /\ bc \notin Barcodes(atStart[r1].inventory)
    /\ bc \notin Barcodes(atStart[r2].inventory)

\* C17: when two requests in flight each sent a record with the same
\* barcode, new to the store, and both have finished, the store holds
\* exactly one inventory row with that barcode, exactly one of the two
\* requests was echoed the row and counts it inserted, the other counts it
\* a duplicate and holds it in its skip list with the duplicate reason, and
\* the `inserted` counts of the two add up to the rows stored for the
\* barcodes they sent.
C17_ConcurrentDuplicateBarcode ==
    \A r1, r2 \in Conc :
        (r1 # r2 /\ FinalOk(r1) /\ FinalOk(r2) /\ RaceOnly(r1) /\ RaceOnly(r2)) =>
            \A bc \in SentBarcodes(r1) \cap SentBarcodes(r2) :
                NewToBoth(bc, r1, r2) =>
                    /\ Cardinality({ k \in 1..Len(inventoryT) :
                                       inventoryT[k].barcode = bc }) = 1
                    /\ \E w \in { r1, r2 } :
                          LET o == CHOOSE x \in { r1, r2 } : x # w
                          IN  /\ bc \in EchoedBarcodes(w) /\ bc \notin EchoedBarcodes(o)
                              /\ Body(w)["inserted"] = 1 /\ Body(w)["duplicates_skipped"] = 0
                              /\ Body(o)["inserted"] = 0 /\ Body(o)["duplicates_skipped"] = 1
                              /\ \E e \in SeqToSet(Body(o)["skippedRows"]) :
                                    /\ e.row.barcode = bc
                                    /\ e.reason.text = "Barcode already exists (duplicate): "
                                    /\ e.reason.args = << bc >>
                    /\ Body(r1)["inserted"] + Body(r2)["inserted"]
                          = Cardinality({ k \in 1..Len(inventoryT) :
                                /\ inventoryT[k].barcode \in SentBarcodes(r1) \cup SentBarcodes(r2)
                                /\ NewToBoth(inventoryT[k].barcode, r1, r2) })

\* Two requests in flight sent the same new barcode; the second to insert
\* was answered with an empty echo.
C17_Witness ==
    \E r1, r2 \in Conc :
        /\ r1 # r2 /\ FinalOk(r1) /\ FinalOk(r2) /\ RaceOnly(r1) /\ RaceOnly(r2)
        /\ \E bc \in SentBarcodes(r1) \cap SentBarcodes(r2) : NewToBoth(bc, r1, r2)
        /\ Body(r1)["inserted"] = 1 /\ Body(r2)["inserted"] = 0
        /\ Body(r2)["duplicates_skipped"] = 1

\* The text t cut to ERROR_TEXT_MAX characters, an ellipsis appended to a cut
\* text when mark is TRUE.
CutText(t, mark) ==
    IF Len(t) <= ERROR_TEXT_MAX THEN t
    ELSE IF mark THEN Append(SubSeq(t, 1, ERROR_TEXT_MAX), Ellipsis)
    ELSE SubSeq(t, 1, ERROR_TEXT_MAX)

\* The skip-list entries due for the insert calls cs answered with an error
\* status: one for each row of each such chunk, in order.
RECURSIVE BulkSkipsOf(_, _)
BulkSkipsOf(cs, mark) ==
    IF cs = << >> THEN << >>
    ELSE (IF Head(cs).outcome = "rejected"
          THEN [k \in 1..Len(Head(cs).arg) |->
                   [row |-> Head(cs).arg[k],
                    reason |-> [text |-> "Supabase error (bulk insert): ",
                                args |-> << CutText(Head(cs).text, mark) >>]]]
          ELSE << >>) \o BulkSkipsOf(Tail(cs), mark)

\* The number of chunks of the inventory payload of invocation r.
ChunkCount(r) ==
    (Len(loc[r].inventoryPayload) + INVENTORY_CHUNK_SIZE - 1) \div INVENTORY_CHUNK_SIZE

\* Over the insert calls cs answered with success: the number of chunk rows
\* whose barcode is among the echoed rows (inEcho TRUE), or is not.
RECURSIVE RowsByEcho(_, _)
RowsByEcho(cs, inEcho) ==
    IF cs = << >> THEN 0
    ELSE (IF Head(cs).outcome = "ok"
          THEN Cardinality({ k \in 1..Len(Head(cs).arg) :
                   (Head(cs).arg[k].barcode \in Barcodes(Head(cs).result)) = inEcho })
          ELSE 0) + RowsByEcho(Tail(cs), inEcho)

\* The j-th insert call of r carries the j-th chunk of the payload (no chunk
\* is sent twice), the rows of the chunks answered with an error status are
\* in the skip list with the cut error text, and they count neither as
\* inserted nor as duplicate.
RejectedChunksSkipped(r, mark) ==
    LET ins == CallsOf(r, "insert")
    IN  /\ \A j \in 1..Len(ins) :
              ins[j].arg = Slice(loc[r].inventoryPayload,
                                 (j - 1) * INVENTORY_CHUNK_SIZE, INVENTORY_CHUNK_SIZE)
        /\ SkipsWith(r, "Supabase error (bulk insert): ") = BulkSkipsOf(ins, mark)
        /\ loc[r].insertedCount = EchoedSoFar(r)
        /\ loc[r].duplicateCount = RowsByEcho(ins, FALSE)
        /\ Len(SkipsWith(r, "Barcode already exists (duplicate): ")) = RowsByEcho(ins, FALSE)

SomeChunkRejected(r) ==
    \E c \in SeqToSet(CallsOf(r, "insert")) : c.outcome = "rejected"

\* C18 as stated: the rows of a chunk answered with an error status are
\* skipped with the error text cut to ERROR_TEXT_MAX characters, count as
\* neither inserted nor duplicate, the chunk is not sent again, every
\* remaining chunk is sent and the request ends with status 200.
C18_RejectedChunkSkipped ==
    \A r \in Req :
        SomeChunkRejected(r) =>
            /\ RejectedChunksSkipped(r, FALSE)
            /\ Responded(r) =>
                  /\ resp[r].status = 200
                  /\ Len(CallsOf(r, "insert")) = ChunkCount(r)

\* C18 amended: the error text is cut to its first ERROR_TEXT_MAX characters
\* followed by an ellipsis when it is longer; the remaining chunks are sent
\* and the request ends with status 200 unless the fetch of a later chunk
\* throws, which ends the request with a 500 of phase
\* insert_inventory_chunks.
C18_RejectedChunkSkippedWithEllipsis ==
    \A r \in Req :
        SomeChunkRejected(r) =>
            /\ RejectedChunksSkipped(r, TRUE)
            /\ Responded(r) =>
                  IF \E c \in SeqToSet(CallsOf(r, "insert")) : c.outcome = "throw"
                  THEN /\ resp[r].status = 500
                       /\ Body(r)["phase"] = "insert_inventory_chunks"
                       /\ calls[r][Len(calls[r])].outcome = "throw"
                  ELSE /\ resp[r].status = 200 /\ FinalOk(r)
                       /\ Len(CallsOf(r, "insert")) = ChunkCount(r)

\* The first chunk was answered with an error status and a text longer
\* than the cut, the second was inserted.
C18_Witness ==
    \E r \in Req :
        /\ FinalOk(r)
        /\ Len(CallsOf(r, "insert")) = 2
        /\ CallsOf(r, "insert")[1].outcome = "rejected"
        /\ Len(CallsOf(r, "insert")[1].text) > ERROR_TEXT_MAX
        /\ CallsOf(r, "insert")[2].outcome = "ok"
        /\ Body(r)["inserted"] = 1 /\ Body(r)["skipped"] = 2

\* C19: over the insert chunks answered with success, the rows counted
\* inserted are the chunk rows whose barcode is among the echoed rows, and
\* the chunk rows whose barcode is not echoed are counted in
\* duplicates_skipped and are in the skip list with the "Barcode already
\* exists" reason.
C19_EchoClassification ==
    \A r \in Req :
        LET ins == CallsOf(r, "insert")
        IN  /\ loc[r].insertedCount = RowsByEcho(ins, TRUE)
            /\ loc[r].duplicateCount = RowsByEcho(ins, FALSE)
            /\ Len(SkipsWith(r, "Barcode already exists (duplicate): "))
                  = RowsByEcho(ins, FALSE)
            /\ \A e \in SeqToSet(SkipsWith(r, "Barcode already exists (duplicate): ")) :
                  /\ e.reason.args = << e.row.barcode >>
                  /\ \E c \in SeqToSet(ins) :
                        /\ c.outcome = "ok"
                        /\ e.row \in SeqToSet(c.arg)
                        /\ e.row.barcode \notin Barcodes(c.result)
            /\ FinalOk(r) =>
                  /\ Body(r)["inserted"] = RowsByEcho(ins, TRUE)
                  /\ Body(r)["duplicates_skipped"] = RowsByEcho(ins, FALSE)

\* The j-th chunk of size elements of arr.
ChunkAt(arr, j, size) ==
    SubSeq(arr, (j - 1) * size + 1, IF j * size < Len(arr) THEN j * size ELSE Len(arr))

\* The calls of kind k of invocation r carry the first chunks of keys, each
\* once and in order.
EachChunkOnce(r, k, keys, size) ==
    LET cs == CallsOf(r, k)
    IN  /\ Len(cs) * size < Len(keys) + size
        /\ \A j \in 1..Len(cs) : cs[j].arg = ChunkAt(keys, j, size)

\* The position of each kind of call in the pipeline.
StageOfKind ==
    [ brands |-> 1, skus |-> 2, batches |-> 3, upsert |-> 4, refetch |-> 5,
      insert |-> 6 ]

\* C20: within a request no outbound call is issued twice: the calls of each
\* phase carry the successive chunks of its keys, each once, there is at
\* most one upsert, and the phases follow each other in pipeline order; and
\* a failed lookup, upsert (other than a conflict) or re-fetch is the last
\* call of the request, which has returned a non-200 response.
C20_NoRetryFailFast ==
    \A r \in Req :
        /\ EachChunkOnce(r, "brands", loc[r].brandNamesArr, BRAND_IN_CHUNK)
        /\ EachChunkOnce(r, "skus", loc[r].skuPairs, SKU_PAIR_CHUNK)
        /\ EachChunkOnce(r, "batches", loc[r].batchNosArr, BATCH_IN_CHUNK)
        /\ EachChunkOnce(r, "refetch", loc[r].batchNosArr, BATCH_IN_CHUNK)
        /\ EachChunkOnce(r, "insert", loc[r].inventoryPayload, INVENTORY_CHUNK_SIZE)
        /\ Len(CallsOf(r, "upsert")) <= 1
        /\ \A k \in 1..(Len(calls[r]) - 1) :
              StageOfKind[calls[r][k].kind] <= StageOfKind[calls[r][k + 1].kind]
        /\ \A k \in 1..Len(calls[r]) :
              LET c == calls[r][k]
              IN  (c.kind \in DOMAIN PhaseOfKind /\ c.outcome # "ok"
                     /\ ~(c.kind = "upsert" /\ c.outcome = "conflict")) =>
                      /\ k = Len(calls[r])
                      /\ Responded(r) /\ resp[r].status # 200

\* The second page of the SKU lookup failed and ended the request.
C20_Witness ==
    \E r \in Req :
        /\ Len(CallsOf(r, "skus")) = 2
        /\ CallsOf(r, "skus")[1].outcome = "ok"
        /\ CallsOf(r, "skus")[2].outcome = "fail"
        /\ Responded(r) /\ resp[r].status = 500
        /\ calls[r][Len(calls[r])].kind = "skus"

\* ------------------------------------------------------------ termination
\* Every outbound call that has been issued is eventually answered: each
\* awaited fetch of an invocation resolves or rejects.
\* (Each action is written with its rejecting outcome first, which is
\* the same action.)
CallReturns(r) ==
    /\ WF_vars(PreloadBrandsOn(r, "fail") \/ PreloadBrands(r))
    /\ WF_vars(PreloadSkusOn(r, "fail") \/ PreloadSkus(r))
    /\ WF_vars(PreloadBatchesOn(r, "fail") \/ PreloadBatches(r))
    /\ WF_vars(UpsertBatchesOn(r, "throw") \/ UpsertBatches(r))
    /\ WF_vars(RefetchBatchesOn(r, "fail") \/ RefetchBatches(r))
    /\ WF_vars(InsertInventoryChunkOn(r, "throw", << >>) \/ InsertInventoryChunk(r))

SpecLive == Init /\ [][Next]_vars /\ \A r \in Req : CallReturns(r)

\* The invocation is between its entry and its response.
Running(r) == pc[r] \notin { "idle", "done" }

\* The number of chunks of size elements of an array of n elements.
Chunks(n, size) == (n + size - 1) \div size

\* The most outbound calls an invocation with the locals l can issue: one
\* for each chunk of brand names, SKU pairs and batch numbers, the upsert,
\* one for each chunk of batch numbers again and one for each insert chunk.
CallBound(l) ==
    Chunks(Len(l.brandNamesArr), BRAND_IN_CHUNK)
      + Chunks(Len(l.skuPairs), SKU_PAIR_CHUNK)
      + Chunks(Len(l.batchNosArr), BATCH_IN_CHUNK)
      + 1
      + Chunks(Len(l.batchNosArr), BATCH_IN_CHUNK)
      + Chunks(Len(l.inventoryPayload), INVENTORY_CHUNK_SIZE)

\* C21: provided every outbound call returns, every invocation of the
\* handler eventually returns a response; it returns one response, whose
\* status is 200, 400 or 500 and which stays as returned, and it has issued
\* no more calls than its key chunks, one upsert and its insert chunks.
C21_Termination ==
    /\ \A r \in Req : Running(r) ~> Responded(r)
    /\ [](\A r \in Req :
             /\ Responded(r) <=> resp[r] # NoResp
             /\ Responded(r) => resp[r].status \in { 200, 400, 500 }
             /\ Len(calls[r]) <= CallBound(loc[r])
             /\ Len(loc[r].brandNamesArr) <= Len(InputRows(r))
             /\ Len(loc[r].skuPairs) <= Len(InputRows(r))
             /\ Len(loc[r].batchNosArr) <= Len(InputRows(r))
             /\ Len(loc[r].inventoryPayload) <= Len(InputRows(r)))
    /\ [][\A r \in Req : Responded(r) => (resp'[r] = resp[r] \/ pc'[r] = "idle")]_vars

\* A request that went through every kind of call, several chunks of some,
\* and returned the final response.
C21_Witness ==
    \E r \in Req :
        /\ FinalOk(r)
        /\ Len(calls[r]) = CallBound(loc[r])
        /\ Len(CallsOf(r, "brands")) = 2
        /\ Len(CallsOf(r, "insert")) = 2

\* --------------------------------------------------------- brand lookup
\* The stored brands whose name equals name ignoring letter case.
BrandsNamed(name) ==
    { k \in 1..Len(brandsT) : ToUpperCase(brandsT[k].name) = ToUpperCase(name) }

\* The brand attachment of invocation r has run.
BrandsAttached(r) ==
    loc[r].brandNamesArr # << >> /\ pc[r] \in { "preload_skus", "done" }

PhaseRank ==
    [ init |-> 0, parse_body |-> 1, normalize_rows |-> 2, preload_brands |-> 3,
      preload_skus |-> 4, preload_batches |-> 5, upsert_batches |-> 6,
      refetch_batches |-> 7, build_inventory_payload |-> 8,
      insert_inventory_chunks |-> 9, done |-> 10 ]

\* Every chunk of keys was sent in a call of kind k and answered with
\* success before the call number n of invocation r.
StageFinishedBefore(r, k, keys, size, n) ==
    LET cs == SelectSeq(SubSeq(calls[r], 1, n - 1), LAMBDA c : c.kind = k)
    IN  /\ Len(cs) = Chunks(Len(keys), size)
        /\ \A j \in 1..Len(cs) : cs[j].outcome = "ok"

\* C23: the outbound calls of a request are issued in the order brand
\* lookups, SKU lookups, batch lookups, batch upsert, batch re-fetch, insert
\* chunks: no SKU lookup before every brand lookup has returned, no write to
\* batches before the SKU resolution (and the batch preload) has finished,
\* no inventory insert before the re-fetch that follows an upsert has
\* finished; every call is issued under the phase tag of its stage, and the
\* tag only moves forward.
C23_PhaseOrdering ==
    /\ [](\A r \in Req : \A n \in 1..Len(calls[r]) :
            LET c == calls[r][n]
                l == loc[r]
            IN  /\ n > 1 => StageOfKind[calls[r][n - 1].kind] <= StageOfKind[c.kind]
                /\ c.phase = IF c.kind = "insert" THEN "insert_inventory_chunks"
                             ELSE PhaseOfKind[c.kind]
                /\ PhaseRank[c.phase] <= PhaseRank[l.phase]
                /\ c.kind = "skus" =>
                      StageFinishedBefore(r, "brands", l.brandNamesArr, BRAND_IN_CHUNK, n)
                /\ c.kind = "batches" =>
                      StageFinishedBefore(r, "skus", l.skuPairs, SKU_PAIR_CHUNK, n)
                /\ c.kind = "upsert" =>
                      /\ StageFinishedBefore(r, "skus", l.skuPairs, SKU_PAIR_CHUNK, n)
                      /\ StageFinishedBefore(r, "batches", l.batchNosArr, BATCH_IN_CHUNK, n)
                /\ c.kind = "refetch" =>
                      \E m \in 1..(n - 1) :
                          calls[r][m].kind = "upsert"
                             /\ calls[r][m].outcome \in { "ok", "conflict" }
                /\ c.kind = "insert" =>
                      /\ StageFinishedBefore(r, "batches", l.batchNosArr, BATCH_IN_CHUNK, n)
                      /\ CallsOf(r, "upsert") # << >> =>
                            StageFinishedBefore(r, "refetch", l.batchNosArr,
                                                BATCH_IN_CHUNK, n))
    /\ [][\A r \in Req :
             pc'[r] # "idle" => PhaseRank[loc[r].phase] <= PhaseRank[loc'[r].phase]]_vars

\* A request that issued calls of all six kinds and reached "done".
C23_Witness ==
    \E r \in Req :
        /\ FinalOk(r)
        /\ \A k \in DOMAIN StageOfKind : CallsOf(r, k) # << >>
        /\ Len(CallsOf(r, "skus")) = 2

\* ------------------------------------------------- several batch numbers
\* Requests over rows of two batch numbers and two brands, and a row whose
\* sku_code is a JSON number, one at a time against a store that knows both
\* brands and both SKUs; the batches and the inventory grow from request to
\* request.
RawAcmeB2 ==
    RawRow([ sku_code |-> Str(<< "S", "1" >>),
             brand_name |-> Str(<< "A", "c", "m", "e" >>),
             batch_no |-> Str(<< "B", "2" >>),
             barcode |-> Str(<< "X", "3" >>),
             date_in |-> Str(<< "2", "0", "2", "5", "-", "0", "1", "-", "1", "5" >>) ])

RawNumericSku ==
    RawRow([ sku_code |-> Num(7),
             brand_name |-> Str(<< "N", "e", "l", "l" >>),
             batch_no |-> Str(<< "B", "1" >>),
             barcode |-> Str(<< "X", "4" >>),
             date_in |-> Str(<< "2", "0", "2", "5", "-", "0", "1", "-", "1", "5" >>) ])

MixPool == { RawNell, RawAcmeB2, RawNumericSku }

MixBodies == { RowsBody(rs) : rs \in SeqsUpTo(MixPool, MaxRows) }

MixInit ==
    /\ brandsT = << BrandNell, BrandAcme >>
    /\ skusT = << SkuNellS1, SkuAcmeS1 >>
    /\ batchesT = << >>
    /\ inventoryT = << >>
    /\ pc = [r \in Req |-> "idle"]
    /\ loc = [r \in Req |-> FreshLoc]
    /\ resp = [r \in Req |-> NoResp]
    /\ calls = [r \in Req |-> << >>]
    /\ atStart = [r \in Req |-> [batches |-> << >>, inventory |-> << >>]]

MixStart(r) ==
    /\ pc[r] = "idle"
    /\ \E body \in MixBodies : Step(r, Begin(TRUE, body))
    /\ calls' = [calls EXCEPT ![r] = << >>]
    /\ atStart' = [atStart EXCEPT ![r] = [batches |-> batchesT, inventory |-> inventoryT]]
    /\ UNCHANGED << brandsT, skusT, batchesT, inventoryT >>

MixNext ==
    \E r \in Req :
        \/ MixStart(r)
        \/ Finish(r)
        \/ PreloadBrands(r)
        \/ PreloadSkus(r)
        \/ PreloadBatches(r)
        \/ UpsertBatches(r)
        \/ RefetchBatches(r)
        \/ InsertInventoryChunk(r)

SpecMix == MixInit /\ [][MixNext]_vars

\* The batch preload of invocation r has returned all of its pages.
BatchesPreloaded(r) ==
    /\ loc[r].batchNosArr # << >>
    /\ Len(CallsOf(r, "batches")) = Chunks(Len(loc[r].batchNosArr), BATCH_IN_CHUNK)
    /\ \A c \in SeqToSet(CallsOf(r, "batches")) : c.outcome = "ok"

\* The batch numbers of the usable rows of r that the preload did not return.
MissingBatchNos(r) ==
    { loc[r].usableRows[k].batch_no : k \in 1..Len(loc[r].usableRows) }
       \ { b.batch_no : b \in SeqToSet(Echoed(CallsOf(r, "batches"))) }

\* C24: the batch upsert is sent at most once in a request, as one call,
\* whose payload holds exactly one record for each distinct batch_no of the
\* usable rows that the preload did not return and none for a batch_no it
\* returned; when no batch is missing neither the upsert nor the re-fetch is
\* issued.
C24_GapFillerPayload ==
    \A r \in Req :
        /\ Len(CallsOf(r, "upsert")) <= 1
        /\ \A c \in SeqToSet(CallsOf(r, "upsert")) :
              /\ BatchesPreloaded(r)
              /\ \A a, b \in 1..Len(c.arg) : a # b => c.arg[a].batch_no # c.arg[b].batch_no
              /\ { c.arg[a].batch_no : a \in 1..Len(c.arg) } = MissingBatchNos(r)
        /\ BatchesPreloaded(r) =>
              IF MissingBatchNos(r) = {}
              THEN CallsOf(r, "upsert") = << >> /\ CallsOf(r, "refetch") = << >>
              ELSE pc[r] = "upsert_batches" \/ CallsOf(r, "upsert") # << >>

\* Three usable rows of two batch numbers, one of them stored already: the
\* upsert carried one record.
C24_Witness ==
    \E r \in Req :
        /\ Len(loc[r].usableRows) = 3
        /\ Len(loc[r].batchNosArr) = 2
        /\ Len(Echoed(CallsOf(r, "batches"))) = 1
        /\ Len(CallsOf(r, "upsert")) = 1
        /\ Len(CallsOf(r, "upsert")[1].arg) = 1

\* The inventory payload of invocation r has been built.
Built(r) == PhaseRank[loc[r].phase] >= PhaseRank["build_inventory_payload"]

\* The batch rows the last batch query of r returned: those of the re-fetch
\* when an upsert was sent, those of the preload otherwise.
LastFetchedBatches(r) ==
    IF CallsOf(r, "upsert") # << >>
    THEN Echoed(CallsOf(r, "refetch"))
    ELSE Echoed(CallsOf(r, "batches"))

\* The usable rows of r whose batch_no is (found TRUE) or is not among the
\* batch rows last fetched.
RowsByBatch(r, found) ==
    SelectSeq(loc[r].usableRows,
              LAMBDA x : (\E b \in SeqToSet(LastFetchedBatches(r)) :
                             b.batch_no = x.batch_no) = found)

\* C25: a usable row whose batch_no is absent from the batch table after
\* gap-filling and re-fetch is skipped with the "Batch not resolved" reason
\* and is in no insert chunk; every record sent in an insert chunk carries a
\* non-empty sku_id and the batch_id of a stored batch whose batch_no is the
\* row's.
C25_BatchNotResolved ==
    \A r \in Req :
        /\ Built(r) =>
              /\ SkipsWith(r, "Batch not resolved for (batch_no=)")
                    = [k \in 1..Len(RowsByBatch(r, FALSE)) |->
                          [row |-> RowsByBatch(r, FALSE)[k],
                           reason |-> [text |-> "Batch not resolved for (batch_no=)",
                                       args |-> << RowsByBatch(r, FALSE)[k].batch_no >>]]]
              /\ Len(loc[r].inventoryPayload) = Len(RowsByBatch(r, TRUE))
              /\ \A k \in 1..Len(loc[r].inventoryPayload) :
                    /\ loc[r].inventoryPayload[k].barcode = RowsByBatch(r, TRUE)[k].barcode
                    /\ loc[r].inventoryPayload[k].batch_no = RowsByBatch(r, TRUE)[k].batch_no
                    /\ loc[r].inventoryPayload[k].sku_id = RowsByBatch(r, TRUE)[k].sku_id
        /\ \A rec \in SeqToSet(Sent(CallsOf(r, "insert"))) :
              /\ Built(r)
              /\ rec \in SeqToSet(loc[r].inventoryPayload)
              /\ rec.sku_id \in { skusT[k].id : k \in 1..Len(skusT) }
              /\ \E j \in 1..Len(batchesT) :
                    batchesT[j].id = rec.batch_id /\ batchesT[j].batch_no = rec.batch_no

\* Batch B1 was stored, the upsert of B2 was answered with a conflict while
\* B2 was not stored: the row of B2 is skipped, the row of B1 is inserted.
C25_Witness ==
    \E r \in Req :
        /\ FinalOk(r)
        /\ Len(SkipsWith(r, "Batch not resolved for (batch_no=)")) = 1
        /\ Len(CallsOf(r, "upsert")) = 1
        /\ CallsOf(r, "upsert")[1].outcome = "conflict"
        /\ Len(Sent(CallsOf(r, "insert"))) >= 1

RECURSIVE Flatten(_)
Flatten(qs) ==
    IF qs = << >> THEN << >> ELSE Head(qs) \o Flatten(Tail(qs))

\* The calls of kind k of r number ceil(N / size) for the N elements of
\* arr, each carries at most size elements, and their arguments put end to
\* end are arr: every element is in exactly one call, in order.
SentInChunks(r, k, arr, size) ==
    LET cs == CallsOf(r, k)
    IN  /\ Len(cs) = Chunks(Len(arr), size)
        /\ \A j \in 1..Len(cs) : Len(cs[j].arg) \in 1..size
        /\ Flatten([j \in 1..Len(cs) |-> cs[j].arg]) = arr

\* The stage of kind k of invocation r has run to its end: the request has
\* issued a call of a later stage, or it has ended on the final response or
\* on an early 200.
StagePassed(r, k) ==
    \/ \E c \in SeqToSet(calls[r]) : StageOfKind[c.kind] > StageOfKind[k]
    \/ /\ Responded(r) /\ resp[r].status = 200
       /\ CallsOf(r, k) # << >>
       /\ \A c \in SeqToSet(CallsOf(r, k)) : c.outcome # "throw"

\* C26: a lookup over N distinct keys with chunk size C issues exactly
\* ceil(N / C) requests and every key is in exactly one of them, for brand
\* names, SKU pairs and batch numbers; an inventory payload of M records is
\* sent in exactly ceil(M / INVENTORY_CHUNK_SIZE) insert calls of at most
\* that many contiguous records, which cover every record once, in order.
C26_RequestCount ==
    \A r \in Req :
        /\ StagePassed(r, "brands") =>
              /\ SentInChunks(r, "brands", loc[r].brandNamesArr, BRAND_IN_CHUNK)
              /\ loc[r].brandNamesArr = Dedup(MapSeq(loc[r].rows, LAMBDA x : x.brand_name))
        /\ StagePassed(r, "skus") =>
              /\ SentInChunks(r, "skus", loc[r].skuPairs, SKU_PAIR_CHUNK)
              /\ loc[r].skuPairs = Dedup(MapSeq(loc[r].rowsWithBrand,
                                                LAMBDA x : << x.brand_id, x.sku_code >>))
        /\ StagePassed(r, "batches") =>
              /\ SentInChunks(r, "batches", loc[r].batchNosArr, BATCH_IN_CHUNK)
              /\ loc[r].batchNosArr = Dedup(MapSeq(loc[r].usableRows, LAMBDA x : x.batch_no))
        /\ (StagePassed(r, "refetch") /\ CallsOf(r, "upsert") # << >>) =>
              SentInChunks(r, "refetch", loc[r].batchNosArr, BATCH_IN_CHUNK)
        /\ FinalOk(r) =>
              SentInChunks(r, "insert", loc[r].inventoryPayload, INVENTORY_CHUNK_SIZE)

\* Three rows, two brand names, two SKU pairs, two batch numbers: two calls
\* for each lookup and two insert chunks, of two records and of one.
C26_Witness ==
    \E r \in Req :
        /\ FinalOk(r)
        /\ Len(loc[r].inventoryPayload) = 3
        /\ Len(CallsOf(r, "brands")) = 2 /\ Len(CallsOf(r, "skus")) = 2
        /\ Len(CallsOf(r, "batches")) = 2 /\ Len(CallsOf(r, "refetch")) = 2
        /\ Len(CallsOf(r, "insert")) = 2
        /\ Len(CallsOf(r, "insert")[1].arg) = 2 /\ Len(CallsOf(r, "insert")[2].arg) = 1

\* ------------------------------------- the (sku_code, brand_name) variant
\* onRequestPost of the batched upload keyed by (sku_code, brand_name): SKUs
\* carry their brand_name, a batch belongs to a (sku_id, batch_no), and each
\* lookup is a single request.
keySku(code, brand) == << code, brand >>

keyBatch(code, brand, batchNo) == << code, brand, batchNo >>

\* normalizeDate of the variant: "" for a falsy value, else String(v).trim();
\* a text of the shape YYYY-MM-DD comes back as it is (a valid date parses
\* at UTC midnight and prints as the same day, an invalid one is returned
\* unparsed). The rows of V2Pool carry dates of that shape or none.
normalizeDateV2(v) ==
    IF Falsy(v) THEN << >> ELSE Trim(ToStr(v))

\* One iteration of the normalisation loop: no alias names in this variant.
V2NormalizedRowOf(raw, i) ==
    [ sku_code   |-> Trim(Coalesce(<< raw["sku_code"] >>, Str(<< >>)).s),
      brand_name |-> Trim(Coalesce(<< raw["brand_name"] >>, Str(<< >>)).s),
      batch_no   |-> Trim(Coalesce(<< raw["batch_no"] >>, Str(<< >>)).s),
      barcode    |-> Trim(Coalesce(<< raw["barcode"] >>, Str(<< >>)).s),
      date_in    |-> normalizeDateV2(raw["date_in"]),
      warranty_months |-> normalizeInt(raw["warranty_months"]),
      rowIndex   |-> i ]

RECURSIVE V2NormalizeRows(_, _, _, _)
V2NormalizeRows(inputRows, i, rows, skippedArr) ==
    IF i >= Len(inputRows)
    THEN [rows |-> rows, skipped |-> skippedArr, threw |-> FALSE]
    ELSE IF \E k \in { "sku_code", "brand_name", "batch_no", "barcode" } :
                TrimThrows(Coalesce(<< inputRows[i + 1][k] >>, Str(<< >>)))
    THEN [rows |-> rows, skipped |-> skippedArr, threw |-> TRUE]
    ELSE LET row == V2NormalizedRowOf(inputRows[i + 1], i)
         IN  IF MissingField(row)
             THEN V2NormalizeRows(inputRows, i + 1, rows,
                                  Append(skippedArr, [row |-> row, reason |-> MissingReason]))
             ELSE V2NormalizeRows(inputRows, i + 1, Append(rows, row), skippedArr)

\* The locals of the variant's onRequestPost at its entry.
V2FreshLoc ==
    [ body |-> MalformedBody, skipped |-> << >>, rows |-> << >>,
      batchKeys |-> << >>, skus |-> << >>, usableRows |-> << >>,
      skuIds |-> << >>, batchNos |-> << >>, batches |-> << >>,
      missingBatchPayload |-> << >>, inventoryPayload |-> << >>, i |-> 0,
      insertedCount |-> 0, duplicateCount |-> 0 ]

\* json(payload, status) of the variant.
V2Return(l, payload, status) ==
    [l |-> l, pc |-> "done", resp |-> [status |-> status, body |-> payload]]

\* The early 200 responses: { added: 0, skipped, skippedRows, note }.
V2Early(l, note) ==
    V2Return(l, [ added |-> 0, skipped |-> Len(l.skipped),
                  skippedRows |-> CappedSkipped(l.skipped), note |-> note ], 200)

\* The outer catch block.
V2Catch(l) ==
    V2Return(l, [error |-> "Unexpected error"], 500)

\* From the entry to the SKU preload.
V2Begin(key, body) ==
    LET l0 == [V2FreshLoc EXCEPT !.body = body]
        inputRows == IF body.hasRows THEN body.rows ELSE << >>
    IN  IF body.kind = "malformed" THEN V2Catch(l0)
        ELSE IF ~key THEN V2Return(l0, [error |-> "Missing SUPABASE_SERVICE_ROLE_KEY"], 500)
        ELSE IF Len(inputRows) = 0 THEN V2Return(l0, [error |-> "No rows provided"], 400)
        ELSE LET n == V2NormalizeRows(inputRows, 0, << >>, << >>)
                 l1 == [l0 EXCEPT !.rows = n.rows, !.skipped = n.skipped]
             IN  IF n.threw THEN V2Catch(l1)
                 ELSE IF Len(n.rows) = 0
                 THEN V2Early(l1, "All rows skipped due to missing required fields")
                 ELSE Goto([l1 EXCEPT !.batchKeys =
                               Dedup(MapSeq(n.rows, LAMBDA r :
                                   keyBatch(r.sku_code, r.brand_name, r.batch_no)))],
                           "v2_preload_skus")

\* skus?sku_code=in.(...)&brand_name=in.(...)
V2SelectSkus(T, codes, brands) ==
    SelectSeq(T, LAMBDA s : s.sku_code \in SeqToSet(codes) /\ s.brand_name \in SeqToSet(brands))

\* batches?sku_id=in.(...)&batch_no=in.(...)
V2SelectBatches(T, skuIds, batchNos) ==
    MapSeq(SelectSeq(T, LAMBDA b : b.sku_id \in SeqToSet(skuIds)
                                     /\ b.batch_no \in SeqToSet(batchNos)),
           LAMBDA b : [id |-> b.id, sku_id |-> b.sku_id, batch_no |-> b.batch_no])

\* POST batches?on_conflict=sku_id,batch_no, resolution=merge-duplicates
RECURSIVE V2UpsertBatchRows(_, _)
V2UpsertBatchRows(T, payload) ==
    IF payload = << >> THEN T
    ELSE LET rec == Head(payload)
             hit == { k \in 1..Len(T) :
                        T[k].sku_id = rec.sku_id /\ T[k].batch_no = rec.batch_no }
         IN  IF hit # {}
             THEN V2UpsertBatchRows(
                      [k \in 1..Len(T) |->
                          IF k \in hit THEN [T[k] EXCEPT !.date_in = rec.date_in] ELSE T[k]],
                      Tail(payload))
             ELSE V2UpsertBatchRows(
                      Append(T, [id |-> Len(T) + 1, sku_id |-> rec.sku_id,
                                 batch_no |-> rec.batch_no, date_in |-> rec.date_in]),
                      Tail(payload))

\* After the SKU preload: skuMap, the usable rows, up to the batch preload.
V2AfterSkus(l) ==
    LET V2SkuKey(s) == keySku(s.sku_code, s.brand_name)
        found(r) == MapHas(l.skus, V2SkuKey, keySku(r.sku_code, r.brand_name))
        usable == SelectSeq(l.rows, found)
        skips == MapSeq(SelectSeq(l.rows, LAMBDA r : ~found(r)),
                        LAMBDA r : [row |-> r,
                                    reason |-> [text |-> "SKU not found for (sku_code=, brand_name=)",
                                                args |-> << r.sku_code, r.brand_name >>]])
        l1 == [l EXCEPT !.usableRows = usable, !.skipped = l.skipped \o skips]
    IN  IF Len(usable) = 0
        THEN V2Early(l1, "All rows skipped due to missing SKUs")
        ELSE Goto([l1 EXCEPT
                     !.skuIds = Dedup(MapSeq(usable, LAMBDA r :
                                   MapGet(l.skus, V2SkuKey,
                                          keySku(r.sku_code, r.brand_name)).id)),
                     !.batchNos = Dedup(MapSeq(usable, LAMBDA r : r.batch_no))],
                  "v2_preload_batches")

\* batchEarliestDateIn.get(bk) after the loop over rows
RECURSIVE batchEarliestDateIn(_, _, _)
batchEarliestDateIn(rows, bk, ex) ==
    IF rows = << >> THEN ex
    ELSE LET r == Head(rows)
         IN  IF keyBatch(r.sku_code, r.brand_name, r.batch_no) = bk
                  /\ (ex = << >> \/ StrLess(r.date_in, ex))
             THEN batchEarliestDateIn(Tail(rows), bk, r.date_in)
             ELSE batchEarliestDateIn(Tail(rows), bk, ex)

\* 4) Build inventory payload, up to the first insert call.
V2BuildInventory(l) ==
    LET V2SkuKey(s) == keySku(s.sku_code, s.brand_name)
        V2BatchKey(b) == << b.sku_id, b.batch_no >>
        skuOf(r) == MapGet(l.skus, V2SkuKey, keySku(r.sku_code, r.brand_name))
        found(r) == MapHas(l.batches, V2BatchKey, << skuOf(r).id, r.batch_no >>)
        payload == MapSeq(SelectSeq(l.usableRows, found),
                          LAMBDA r :
                              [ sku_code |-> r.sku_code, brand_name |-> r.brand_name,
                                batch_no |-> r.batch_no, sku_id |-> skuOf(r).id,
                                batch_id |-> MapGet(l.batches, V2BatchKey,
                                                    << skuOf(r).id, r.batch_no >>).id,
                                barcode |-> r.barcode, date_in |-> r.date_in,
                                warranty_months |-> r.warranty_months ])
        skips == MapSeq(SelectSeq(l.usableRows, LAMBDA r : ~found(r)),
                        LAMBDA r : [row |-> r,
                                    reason |-> [text |-> "Batch not resolved for (sku=, batch_no=)",
                                                args |-> << r.sku_code, r.brand_name,
                                                            r.batch_no >>]])
        l1 == [l EXCEPT !.inventoryPayload = payload, !.skipped = l.skipped \o skips]
    IN  IF Len(payload) = 0
        THEN V2Early(l1, "Nothing to insert after resolving SKUs/Batches.")
        ELSE Goto([l1 EXCEPT !.i = 0], "v2_insert")

\* After the batch preload: batchMap, then the loop over batchKeys, the keys
\* of all validated rows. skuMap.get(keySku(sku_code, brand_name))! is
\* undefined for a key whose SKU was not found, and reading its id throws a
\* TypeError, which the outer catch answers.
V2AfterBatches(l) ==
    LET V2SkuKey(s) == keySku(s.sku_code, s.brand_name)
        V2BatchKey(b) == << b.sku_id, b.batch_no >>
        hasSku(bk) == MapHas(l.skus, V2SkuKey, keySku(bk[1], bk[2]))
        skuId(bk) == MapGet(l.skus, V2SkuKey, keySku(bk[1], bk[2])).id
        missing == SelectSeq(l.batchKeys, LAMBDA bk :
                       ~MapHas(l.batches, V2BatchKey, << skuId(bk), bk[3] >>))
        l1 == [l EXCEPT !.missingBatchPayload =
                  MapSeq(missing, LAMBDA bk :
                      [ sku_id |-> skuId(bk), batch_no |-> bk[3],
                        date_in |-> batchEarliestDateIn(l.rows, bk, << >>) ])]
    IN  IF \E k \in 1..Len(l.batchKeys) : ~hasSku(l.batchKeys[k])
        THEN V2Catch(l)
        ELSE IF Len(l1.missingBatchPayload) > 0
        THEN Goto(l1, "v2_upsert")
        ELSE V2BuildInventory(l1)

\* The end of an iteration of the insert loop.
V2NextChunk(l) ==
    LET l1 == [l EXCEPT !.i = @ + INVENTORY_CHUNK_SIZE]
    IN  IF l1.i < Len(l1.inventoryPayload)
        THEN Goto(l1, "v2_insert")
        ELSE V2Return(l1,
                      [ added |-> l1.insertedCount, skipped |-> Len(l1.skipped),
                        inserted |-> l1.insertedCount,
                        duplicates_skipped |-> l1.duplicateCount,
                        skippedRows |-> CappedSkipped(l1.skipped),
                        note |-> "Batched mode" ],
                      200)

\* The store of the variant and its requests: one SKU S1 of brand Nell, rows
\* of that SKU in two batches and a row of a SKU the store does not know.
V2Raw(code, batch, barcode) ==
    RawRow([ sku_code |-> Str(code), brand_name |-> Str(<< "N", "e", "l", "l" >>),
             batch_no |-> Str(batch), barcode |-> Str(barcode),
             date_in |-> Str(<< "2", "0", "2", "5", "-", "0", "1", "-", "1", "0" >>) ])

V2Pool ==
    { V2Raw(<< "S", "1" >>, << "B", "1" >>, << "X", "1" >>),
      V2Raw(<< "S", "1" >>, << "B", "2" >>, << "X", "2" >>),
      V2Raw(<< "S", "9" >>, << "B", "1" >>, << "X", "3" >>) }

V2Init ==
    /\ brandsT = << >>
    /\ skusT = << [id |-> "s1", sku_code |-> << "S", "1" >>,
                   brand_name |-> << "N", "e", "l", "l" >>] >>
    /\ batchesT = << >>
    /\ inventoryT = << >>
    /\ pc = [r \in Req |-> "idle"]
    /\ loc = [r \in Req |-> V2FreshLoc]
    /\ resp = [r \in Req |-> NoResp]
    /\ calls = [r \in Req |-> << >>]
    /\ atStart = [r \in Req |-> [batches |-> << >>, inventory |-> << >>]]

V2Log(r, kind, arg, outcome, result) ==
    calls' = [calls EXCEPT ![r] =
                 Append(@, [kind |-> kind, phase |-> pc[r], arg |-> arg,
                            outcome |-> outcome, result |-> result, text |-> << >>])]

V2Start(r) ==
    /\ pc[r] = "idle"
    /\ \E key \in BOOLEAN,
          body \in { MalformedBody, NoRowsBody }
                     \cup { RowsBody(rs) : rs \in SeqsUpTo(V2Pool, MaxRows) } :
         Step(r, V2Begin(key, body))
    /\ calls' = [calls EXCEPT ![r] = << >>]
    /\ atStart' = [atStart EXCEPT ![r] = [batches |-> batchesT, inventory |-> inventoryT]]
    /\ UNCHANGED << brandsT, skusT, batchesT, inventoryT >>

\* 1) Preload SKUs: one request.
V2PreloadSkus(r) ==
    /\ pc[r] = "v2_preload_skus"
    /\ LET l == loc[r]
           codes == Dedup(MapSeq(l.rows, LAMBDA x : x.sku_code))
           brands == Dedup(MapSeq(l.rows, LAMBDA x : x.brand_name))
           page == V2SelectSkus(skusT, codes, brands)
       IN  \E outcome \in { "ok", "fail" } :
             /\ V2Log(r, "skus", << codes, brands >>, outcome,
                      IF outcome = "ok" THEN page ELSE << >>)
             /\ IF outcome = "fail"
                THEN Step(r, V2Return(l, [error |-> "Failed to preload SKUs"], 500))
                ELSE Step(r, V2AfterSkus([l EXCEPT !.skus = page]))
    /\ UNCHANGED << brandsT, skusT, batchesT, inventoryT, atStart >>

\* 2) Preload batches: one request.
V2PreloadBatches(r) ==
    /\ pc[r] = "v2_preload_batches"
    /\ LET l == loc[r]
           page == V2SelectBatches(batchesT, l.skuIds, l.batchNos)
       IN  \E outcome \in { "ok", "fail" } :
             /\ V2Log(r, "batches", << l.skuIds, l.batchNos >>, outcome,
                      IF outcome = "ok" THEN page ELSE << >>)
             /\ IF outcome = "fail"
                THEN Step(r, V2Return(l, [error |-> "Failed to preload Batches"], 500))
                ELSE Step(r, V2AfterBatches([l EXCEPT !.batches = page]))
    /\ UNCHANGED << brandsT, skusT, batchesT, inventoryT, atStart >>

\* 3) Upsert missing batches: a plain fetch whose status is not looked at.
V2UpsertBatches(r) ==
    /\ pc[r] = "v2_upsert"
    /\ LET l == loc[r]
       IN  \E outcome \in { "ok", "error", "throw" } :
             /\ V2Log(r, "upsert", l.missingBatchPayload, outcome, << >>)
             /\ batchesT' = IF outcome = "ok"
                            THEN V2UpsertBatchRows(batchesT, l.missingBatchPayload)
                            ELSE batchesT
             /\ IF outcome = "throw"
                THEN Step(r, V2Return(l, [error |-> "Failed to upsert batches"], 500))
                ELSE Step(r, Goto(l, "v2_refetch"))
    /\ UNCHANGED << brandsT, skusT, inventoryT, atStart >>

\* The re-fetch of batches after the upsert.
V2RefetchBatches(r) ==
    /\ pc[r] = "v2_refetch"
    /\ LET l == loc[r]
           page == V2SelectBatches(batchesT, l.skuIds, l.batchNos)
       IN  \E outcome \in { "ok", "fail" } :
             /\ V2Log(r, "refetch", << l.skuIds, l.batchNos >>, outcome,
                      IF outcome = "ok" THEN page ELSE << >>)
             /\ IF outcome = "fail"
                THEN Step(r, V2Return(l, [error |-> "Failed to re-fetch batches"], 500))
                ELSE Step(r, V2BuildInventory([l EXCEPT !.batches = page]))
    /\ UNCHANGED << brandsT, skusT, batchesT, inventoryT, atStart >>

\* 5) One chunk of the insert.
V2InsertChunk(r) ==
    /\ pc[r] = "v2_insert"
    /\ LET l == loc[r]
           chunk == Slice(l.inventoryPayload, l.i, INVENTORY_CHUNK_SIZE)
           done == InsertInventoryRows(inventoryT, chunk, << >>)
       IN  \E outcome \in { "ok", "rejected", "throw" } :
             /\ V2Log(r, "insert", chunk, outcome,
                      IF outcome = "ok" THEN done.echoed ELSE << >>)
             /\ inventoryT' = IF outcome = "ok" THEN done.table ELSE inventoryT
             /\ CASE outcome = "throw" -> Step(r, V2Catch(l))
                  [] outcome = "rejected" ->
                       Step(r, V2NextChunk([l EXCEPT !.skipped = @ \o MapSeq(chunk,
                               LAMBDA bad : [row |-> bad,
                                             reason |-> BulkInsertError(<< "e", "r", "r" >>)])]))
                  [] OTHER ->
                       Step(r, V2NextChunk(
                                 [l EXCEPT !.insertedCount = @ + Len(done.echoed),
                                           !.duplicateCount =
                                               @ + Len(chunk) - Len(done.echoed)]))
    /\ UNCHANGED << brandsT, skusT, batchesT, atStart >>

V2Next ==
    \E r \in Req :
        \/ V2Start(r)
        \/ Finish(r)
        \/ V2PreloadSkus(r)
        \/ V2PreloadBatches(r)
        \/ V2UpsertBatches(r)
        \/ V2RefetchBatches(r)
        \/ V2InsertChunk(r)

SpecV2 == V2Init /\ [][V2Next]_vars

\* The SKU preload of r found the SKU of some rows and not of others.
V2Mixed(r) ==
    /\ loc[r].usableRows # << >>
    /\ SkipsWith(r, "SKU not found for (sku_code=, brand_name=)") # << >>

\* C27: in the (sku_code, brand_name)-keyed variant a request that mixes
\* rows whose SKU is found with rows whose SKU is not found returns status
\* 200 (when the store answers every call): the rows not found are in the
\* skip list with the "SKU not found" reason carrying sku_code and
\* brand_name, and the rows found go on through batch resolution, upsert and
\* insert.
C27_MixedSkusReturn200 ==
    \A r \in Req :
        (Responded(r) /\ V2Mixed(r) /\ AllCallsOk(r)) =>
            /\ resp[r].status = 200
            /\ \A e \in SeqToSet(SkipsWith(r, "SKU not found for (sku_code=, brand_name=)")) :
                  e.reason.args = << e.row.sku_code, e.row.brand_name >>
            /\ CallsOf(r, "batches") # << >>
            /\ CallsOf(r, "insert") # << >>

\* The rows of the request that the normalisation loop put on the skip list.
MissingSkips(r) ==
    SkipsWith(r, "Missing required field(s). Required: sku_code, brand_name, batch_no, barcode, date_in")

\* C28: for rows whose field values are strings, numbers or absent the
\* normalisation never aborts the request: every row of the request is
\* normalised or put on the skip list, and a request that has issued no
\* store call has not ended with a 500.
C28_NormalizationNeverAborts ==
    \A r \in Req :
        (Responded(r) /\ loc[r].hasKey /\ loc[r].body.kind = "json"
            /\ InputRows(r) # << >>) =>
            /\ Len(loc[r].rows) + Len(MissingSkips(r)) = Len(InputRows(r))
            /\ calls[r] = << >> => resp[r].status # 500

\* C29: once a batch record is stored for a batch_no, no request changes
\* its sku_id or date_in: neither a later request that finds it in its
\* preload nor the second of two requests that race to create it.
C29_ExistingBatchesUnmodified ==
    [][\A k \in 1..Len(batchesT) :
          /\ k <= Len(batchesT')
          /\ batchesT'[k].batch_no = batchesT[k].batch_no
          /\ batchesT'[k].sku_id = batchesT[k].sku_id
          /\ batchesT'[k].date_in = batchesT[k].date_in]_vars

\* ------------------------------------------------ the same request twice
\* Invocation 1 handles a request; when it has responded, invocation 2
\* handles the same request (same credential, same body) against the store
\* as invocation 1 left it.
TwiceStart(r) ==
    /\ pc[r] = "idle"
    /\ IF r = 1
       THEN \E body \in MixBodies : Step(r, Begin(TRUE, body))
       ELSE /\ pc[1] = "done"
            /\ Step(r, Begin(loc[1].hasKey, loc[1].body))
    /\ calls' = [calls EXCEPT ![r] = << >>]
    /\ atStart' = [atStart EXCEPT ![r] = [batches |-> batchesT, inventory |-> inventoryT]]
    /\ UNCHANGED << brandsT, skusT, batchesT, inventoryT >>

TwiceNext ==
    \E r \in Conc :
        \/ TwiceStart(r)
        \/ PreloadBrands(r)
        \/ PreloadSkus(r)
        \/ PreloadBatches(r)
        \/ UpsertBatches(r)
        \/ RefetchBatches(r)
        \/ InsertInventoryChunk(r)

SpecTwice == ConcInit /\ [][TwiceNext]_vars

\* C30: when a request has been handled with every store call answered
\* with success, handling the same request again leaves the batches and the
\* inventory as the first run left them: the second run issues no batch
\* upsert and no row is inserted for it; and no step of any run changes the
\* brands or the SKUs table.
C30_StoreIdempotence ==
    /\ []((pc[2] # "idle" /\ AllCallsOk(1)) =>
            /\ batchesT = atStart[2].batches
            /\ inventoryT = atStart[2].inventory
            /\ CallsOf(2, "upsert") = << >>
            /\ CallsOf(2, "refetch") = << >>
            /\ Echoed(CallsOf(2, "insert")) = << >>
            /\ loc[2].insertedCount = 0)
    /\ [][brandsT' = brandsT /\ skusT' = skusT]_vars

\* Both runs reached the final response: the first created two batches and
\* inserted two rows, the second found all of them stored.
C30_Witness ==
    /\ FinalOk(1) /\ AllCallsOk(1) /\ FinalOk(2) /\ AllCallsOk(2)
    /\ Len(atStart[2].batches) = 2 /\ Len(atStart[2].inventory) = 2
    /\ Body(1)["inserted"] = 2
    /\ Body(2)["inserted"] = 0 /\ Body(2)["duplicates_skipped"] = 2
    /\ Len(CallsOf(1, "upsert")) = 1
    /\ Len(CallsOf(2, "insert")) = 1

====
